---- MODULE Spec2Model ----
(***************************************************************************)
(* A model of stevemeier/mirrorlist: the frontend's mirror selection with  *)
(* its response cache (src/mirrorlist/main.go) and the backend's checking  *)
(* pipeline (src/mirrorlist_updater.go), both working on the shared store  *)
(* of mirrors, repos and status rows.                                      *)
(*                                                                         *)
(* Strings of the program are sequences of one-character strings, so that  *)
(* concatenation, the regular expressions and the cache key are computed   *)
(* as the code computes them.                                              *)
(***************************************************************************)
EXTENDS Integers, Sequences, FiniteSets, TLC

VARIABLES
  mirrors,     \* table mirrors: mirror_id -> row
  repos,       \* table repos: repo_id -> row
  status,      \* table status: <<mirror_id, repo_id>> -> row
  sqlite_sequence, \* the last id the autoincrement key of each table gave
  listsize,    \* frontend global listsize
  caching,     \* frontend global caching
  rescache,    \* frontend global rescache: key -> [value, expireAt]
  now,         \* wall clock, seconds
  resp,        \* the response of the last frontend request, with its trace
  last,        \* the last selection that computed a cache key: what it answered
  prev,        \* the selection with a cache key before that one
  nreq,        \* number of selection requests handled
  taskchan,    \* updater channel taskchan
  resultchan,  \* updater channel resultchan
  inflight,    \* execute_test goroutines that have not sent their result
  committer,   \* committer goroutine: "idle" or "draining"
  awaiting,    \* pairs put on taskchan whose status row was not written since
  reselected,  \* pairs the scheduler's last query selected while in awaiting
  lastwrite,   \* the last update_mirror_status: result, row before, row after
  nsched,      \* number of rounds of tasks the scheduler has enqueued
  hosts,       \* what the host of each mirror answers to a probe
  batch,       \* results at the head of resultchan that were waiting when the
               \* committer opened its transaction and are not written yet
  pending,     \* the POST handlers between their reads and their
               \* transaction, each with the status rows it is about to insert
  keyed,       \* two requests at the cache lookup of the handler, with the
               \* keys it built for them
  order        \* history of the probes: the number of dispatches, the probes
               \* in flight and the results queued with their numbers, and
               \* for each pair the numbers of the probe written last and of
               \* the latest-dispatched probe written

storevars == <<mirrors, repos, status, sqlite_sequence>>
frontvars == <<listsize, caching, rescache, resp, last, prev, nreq>>
pipevars  == <<taskchan, resultchan, inflight, committer, awaiting, reselected,
               lastwrite, nsched, hosts, batch, pending, keyed, order>>
vars == <<mirrors, repos, status, sqlite_sequence, listsize, caching, rescache,
          now, resp, last, prev, nreq, taskchan, resultchan, inflight, committer,
          awaiting, reselected, lastwrite, nsched, hosts, batch, pending, keyed, order>>

(***************************************************************************)
(* Bounds of the model.                                                    *)
(***************************************************************************)
\* mirrors in the fleet
MaxMirrors == 3
\* selection requests in one behaviour
MaxRequests == 2
\* the clock stops here
MaxTime == 3600
\* rounds of tasks the scheduler enqueues in one behaviour
MaxRounds == 2
\* capacity of taskchan and of resultchan (20 in the source)
QueueCap == 4
\* the updater's clock advances this often
MaxSleeps == 1

(***************************************************************************)
(* Strings.                                                                *)
(***************************************************************************)
DigitChar == <<"0", "1", "2", "3", "4", "5", "6", "7", "8", "9">>

\* strconv.Itoa / fmt %d of a non-negative integer
RECURSIVE Itoa(_)
Itoa(n) ==
  IF n < 10 THEN <<DigitChar[n + 1]>>
  ELSE Itoa(n \div 10) \o <<DigitChar[(n % 10) + 1]>>

\* the characters of the model's strings that the regexp class \w rejects
NonWord == {"/", ":", ".", "-", "\n"}
IsWord(c) == c \notin NonWord

\* whether the run of slashes that ends at s[j] follows a \w character
RECURSIVE RunAfterWord(_, _)
RunAfterWord(s, j) ==
  IF j = 1 THEN FALSE
  ELSE IF s[j - 1] = "/" THEN RunAfterWord(s, j - 1)
  ELSE IsWord(s[j - 1])

\* whether multislash drops s[i]: a slash after the first one of a run
\* that (\w)\/+ matches
Collapsed(s, i) ==
  /\ s[i] = "/"
  /\ i > 1
  /\ s[i - 1] = "/"
  /\ RunAfterWord(s, i - 1)

\* s[lo..hi] without the characters multislash drops
RECURSIVE KeptOf(_, _, _)
KeptOf(s, lo, hi) ==
  IF lo > hi THEN <<>>
  ELSE IF lo = hi THEN (IF Collapsed(s, lo) THEN <<>> ELSE <<s[lo]>>)
  ELSE LET mid == (lo + hi) \div 2
       IN  KeptOf(s, lo, mid) \o KeptOf(s, mid + 1, hi)

\* multislash.ReplaceAllString(result, "$1/") with multislash = (\w)\/+ :
\* every \w followed by slashes keeps one slash
multislash(s) == KeptOf(s, 1, Len(s))

\* regexp ^7 and ^8 of full_mirror_urls
seven(s) == s # <<>> /\ Head(s) = "7"
eight(s) == s # <<>> /\ Head(s) = "8"

EndsWith(s, suffix) ==
  /\ Len(s) >= Len(suffix)
  /\ SubSeq(s, Len(s) - Len(suffix) + 1, Len(s)) = suffix

\* the lines of a body, each without its newline
RECURSIVE Lines(_)
Lines(s) ==
  IF s = <<>> THEN <<>>
  ELSE LET n == CHOOSE i \in 1..Len(s) :
                  /\ (s[i] = "\n" \/ i = Len(s))
                  /\ \A j \in 1..(i - 1) : s[j] # "\n"
       IN  <<SubSeq(s, 1, IF s[n] = "\n" THEN n - 1 ELSE n)>>
             \o Lines(SubSeq(s, n + 1, Len(s)))

Range(f) == {f[x] : x \in DOMAIN f}

\* all orderings of a finite set, as sequences
RECURSIVE Orderings(_)
Orderings(S) ==
  IF S = {} THEN {<<>>}
  ELSE UNION {{<<x>> \o t : t \in Orderings(S \ {x})} : x \in S}

Prefix(s, n) == SubSeq(s, 1, IF Len(s) < n THEN Len(s) ELSE n)

(***************************************************************************)
(* The store: rows of the three tables, and the fleet the model works on.  *)
(***************************************************************************)
\* SQL NULL of an integer column (status.timestamp and status.result of a
\* row inserted with mirror_id, repo_id and checked only); it sorts below
\* every value, as NULL does
NULL == -9999

EUR == <<"E", "U">>
GER == <<"D", "E">>
FRA == <<"F", "R">>
BER == <<"B", "E">>
BAV == <<"B", "Y">>
IDF == <<"I", "D", "F">>

\* lib.Location
Location(known, continent, country, region) ==
  [Known |-> known, Continent |-> continent, Country |-> country, Region |-> region]

UnknownLocation == Location(FALSE, <<>>, <<>>, <<>>)

MirrorIds == 1..MaxMirrors

MirrorName(i) == <<"m">> \o Itoa(i)

\* What DNS and the geo database answer for the host of mirror i (four kinds
\* of host): lib.IPfamilies and get_ip_location(lib.Name_to_ip(name))
HostFamilies(i) ==
  CASE i % 4 = 1 -> [v4 |-> 1, v6 |-> 1]
    [] i % 4 = 2 -> [v4 |-> 1, v6 |-> 0]
    [] i % 4 = 3 -> [v4 |-> 1, v6 |-> 1]
    [] OTHER     -> [v4 |-> 0, v6 |-> 0]

HostLocation(i) ==
  CASE i % 4 = 1 -> Location(TRUE, EUR, GER, BAV)
    [] i % 4 = 2 -> Location(TRUE, EUR, GER, BER)
    [] i % 4 = 3 -> Location(TRUE, EUR, FRA, IDF)
    [] OTHER     -> Location(TRUE, <<>>, <<>>, <<>>)

\* The base directories an administrator posts for mirror i
HostBasedir(i) ==
  CASE i % 4 = 1 -> <<"/", "c">>
    [] i % 4 = 2 -> <<"/", "c", "/">>
    [] i % 4 = 3 -> <<"c">>
    [] OTHER     -> <<"/", "c">>

HostBasedirAlt(i) == IF i % 4 = 3 THEN <<"/", "a">> ELSE <<>>

\* The row http_handler_mirror_post inserts for host i
MirrorRow(i, enabled) ==
  [name |-> MirrorName(i),
   basedir |-> HostBasedir(i),
   basedir_altarch |-> HostBasedirAlt(i),
   ipv4 |-> HostFamilies(i).v4,
   ipv6 |-> HostFamilies(i).v6,
   enabled |-> enabled,
   continent |-> HostLocation(i).Continent,
   country |-> HostLocation(i).Country,
   region |-> HostLocation(i).Region]

BaseOS == <<"B", "a", "s", "e", "O", "S">>
x86_64 == <<"x", "8", "6", "_", "6", "4">>
armhfp == <<"a", "r", "m">>

\* The rows http_handler_repo_post inserts for the repositories of the model
RepoRows ==
  (1 :> [major_release |-> 8, path |-> <<"8">>, name |-> BaseOS,
         arch |-> x86_64, is_altarch |-> FALSE, enabled |-> 1])
  @@ (2 :> [major_release |-> 7, path |-> <<"7">>, name |-> <<"o", "s">>,
            arch |-> armhfp, is_altarch |-> TRUE, enabled |-> 1])

\* The compatibility test of http_handler_repo_post and http_handler_mirror_post
Compatible(mirror, repo) ==
  \/ (mirror.basedir # <<>> /\ ~repo.is_altarch)
  \/ (mirror.basedir_altarch # <<>> /\ repo.is_altarch)

\* the autoincrement keys after the administrator has posted the
\* repositories of the model and the mirrors of a fleet
SequenceAfterPosts(fleet) ==
  [mirrors |-> Cardinality(fleet), repos |-> Cardinality(DOMAIN RepoRows)]

\* INSERT INTO status (mirror_id, repo_id, checked) VALUES (m, r, 0)
StatusInsert == [timestamp |-> NULL, checked |-> 0, result |-> NULL]

(***************************************************************************)
(* Frontend: the requests of the model and the queries of the handler.     *)
(***************************************************************************)
\* Client addresses (the ip parameter or the remote address), each with what
\* net.ParseIP makes of it and what the geo database holds for it
Clients ==
  { [parses |-> TRUE,  v4 |-> TRUE,  geo |-> Location(TRUE, EUR, GER, BER)],
    [parses |-> TRUE,  v4 |-> FALSE, geo |-> Location(TRUE, EUR, GER, BER)],
    [parses |-> FALSE, v4 |-> FALSE, geo |-> UnknownLocation] }

\* lib.IPversion: "6" whenever To4() is nil, also for an address that does not parse
IPversion(ip) == IF ip.parses /\ ip.v4 THEN <<"4">> ELSE <<"6">>

\* get_ip_location: geodb.City fails on a nil address
get_ip_location(ip) == IF ip.parses THEN ip.geo ELSE UnknownLocation

\* Query strings: the values of release, repo and arch (empty when missing)
Query(release, repo, arch) == [release |-> release, repo |-> repo, arch |-> arch]

Queries ==
  { Query(<<"8">>, BaseOS, x86_64),
    Query(<<"7">>, <<"o", "s">>, armhfp),
    Query(<<"9">>, BaseOS, x86_64),
    Query(<<"8">>, <<>>, x86_64),
    Query(<<>>, BaseOS, x86_64),
    Query(<<>>, <<>>, <<>>) }

NotSpecified == <<" ", "n", "o", "t", " ", "s", "p", "e", "c", "i", "f", "i", "e", "d", "\n">>
InvalidCombination == <<"I", "n", "v", "a", "l", "i", "d", " ", "r", "e", "l", "e", "a", "s", "e", "/", "r", "e", "p", "o", "/", "a", "r", "c", "h", " ", "c", "o", "m", "b", "i", "n", "a", "t", "i", "o", "n", "\n">>
HttpScheme == <<"h", "t", "t", "p", ":", "/", "/">>

\* the parameter test in the variant whose key list lacks "repo"
MissingParameter_norepo(q) ==
  IF q.arch = <<>> THEN <<"a", "r", "c", "h">>
  ELSE IF q.release = <<>> THEN <<"r", "e", "l", "e", "a", "s", "e">>
  ELSE <<>>

\* for _, key := range []string{"arch", "release", "repo"}: the first one missing
MissingParameter(q) ==
  IF q.arch = <<>> THEN <<"a", "r", "c", "h">>
  ELSE IF q.release = <<>> THEN <<"r", "e", "l", "e", "a", "s", "e">>
  ELSE IF q.repo = <<>> THEN <<"r", "e", "p", "o">>
  ELSE <<>>

\* get_repo_id: the first enabled repo of that release, name and arch
get_repo_id(release, repo, arch) ==
  LET rows == {r \in DOMAIN repos :
                 /\ repos[r].enabled > 0
                 /\ Itoa(repos[r].major_release) = release
                 /\ repos[r].name = repo
                 /\ repos[r].arch = arch}
  IN  IF rows = {}
      THEN [repoid |-> -1, repopath |-> <<>>, is_altarch |-> FALSE]
      ELSE LET r == CHOOSE x \in rows : \A y \in rows : x <= y
           IN  [repoid |-> r, repopath |-> repos[r].path,
                is_altarch |-> repos[r].is_altarch]

\* mirrors_with_repo in the variant whose query lacks "mirrors.enabled > 0"
mirrors_with_repo_any(repoid) ==
  LET rows == {m \in DOMAIN mirrors : <<m, repoid>> \in DOMAIN status}
  IN  {s \in Orderings(rows) :
         \A i, j \in 1..Len(s) :
           i < j => status[<<s[i], repoid>>].timestamp
                      >= status[<<s[j], repoid>>].timestamp}

\* mirrors_with_repo: the results the query can give, ORDER BY
\* status.timestamp DESC and then at random
mirrors_with_repo(repoid) ==
  LET rows == {m \in DOMAIN mirrors :
                 <<m, repoid>> \in DOMAIN status /\ mirrors[m].enabled > 0}
  IN  {s \in Orderings(rows) :
         \A i, j \in 1..Len(s) :
           i < j => status[<<s[i], repoid>>].timestamp
                      >= status[<<s[j], repoid>>].timestamp}

\* the column ipv4 or ipv6 that "AND ipv"+ipversion+" > 0" reads
ipcolumn(row, ipversion) == IF ipversion = <<"4">> THEN row.ipv4 ELSE row.ipv6

\* One SELECT of the narrowing query in the variant without the test of the
\* column of the client's IP version
TierRows_anyfamily(loc, ipversion, ids, prio) ==
  {m \in DOMAIN mirrors :
     /\ m \in ids
     /\ mirrors[m].continent = loc.Continent
     /\ (prio <= 2 => mirrors[m].country = loc.Country)
     /\ (prio <= 1 => mirrors[m].region = loc.Region)
     /\ mirrors[m].enabled > 0}

\* The rows of one SELECT of the narrowing query, with priority prio
TierRows(loc, ipversion, ids, prio) ==
  {m \in DOMAIN mirrors :
     /\ m \in ids
     /\ mirrors[m].continent = loc.Continent
     /\ (prio <= 2 => mirrors[m].country = loc.Country)
     /\ (prio <= 1 => mirrors[m].region = loc.Region)
     /\ ipcolumn(mirrors[m], ipversion) > 0
     /\ mirrors[m].enabled > 0}

\* nearby_mirrors in the variant whose query has no LIMIT
nearby_mirrors_nolimit(loc, ipversion, allmirrors, limit) ==
  LET ids == Range(allmirrors)
  IN  {o1 \o o2 \o o3 :
         o1 \in Orderings(TierRows(loc, ipversion, ids, 1)),
         o2 \in Orderings(TierRows(loc, ipversion, ids, 2)),
         o3 \in Orderings(TierRows(loc, ipversion, ids, 3))}

\* nearby_mirrors: the results the query can give: the rows of the three
\* SELECTs (one row per mirror and priority), ORDER BY prio and then at
\* random, LIMIT limit
nearby_mirrors(loc, ipversion, allmirrors, limit) ==
  LET ids == Range(allmirrors)
  IN  {Prefix(o1 \o o2 \o o3, limit) :
         o1 \in Orderings(TierRows(loc, ipversion, ids, 1)),
         o2 \in Orderings(TierRows(loc, ipversion, ids, 2)),
         o3 \in Orderings(TierRows(loc, ipversion, ids, 3))}

\* the ids of a set in ascending order: the order in which both database
\* engines return the rows of "WHERE mirror_id IN (...)", a lookup by
\* primary key without ORDER BY
RECURSIVE Ascending(_)
Ascending(S) ==
  IF S = {} THEN <<>>
  ELSE LET x == CHOOSE y \in S : \A z \in S : y <= z
       IN  <<x>> \o Ascending(S \ {x})

\* One iteration of the rows.Next() loop of full_mirror_urls
UrlLine(row, release, repo, arch, is_altarch) ==
  LET directory == IF is_altarch THEN row.basedir_altarch ELSE row.basedir
      stem == HttpScheme \o row.name \o <<"/">> \o directory \o <<"/">>
                \o release \o <<"/">> \o repo \o <<"/">> \o arch
  IN  (IF seven(release) THEN stem \o <<"/", "\n">> ELSE <<>>)
      \o (IF eight(release) THEN stem \o <<"/", "o", "s", "/", "\n">> ELSE <<>>)

RECURSIVE UrlLines(_, _, _, _, _)
UrlLines(rows, release, repo, arch, is_altarch) ==
  IF rows = <<>> THEN <<>>
  ELSE UrlLine(mirrors[Head(rows)], release, repo, arch, is_altarch)
         \o UrlLines(Tail(rows), release, repo, arch, is_altarch)

\* full_mirror_urls in the variant that renders one line per id of the list
full_mirror_urls_perid(ms, release, repo, arch, is_altarch) ==
  IF ms = <<>> THEN <<>>
  ELSE multislash(UrlLines(SelectSeq(ms, LAMBDA m : m \in DOMAIN mirrors),
                           release, repo, arch, is_altarch))

\* full_mirror_urls; sqlx.In fails on an empty slice
full_mirror_urls(ms, release, repo, arch, is_altarch) ==
  IF ms = <<>> THEN <<>>
  ELSE multislash(UrlLines(Ascending({m \in DOMAIN mirrors : m \in Range(ms)}),
                           release, repo, arch, is_altarch))

(***************************************************************************)
(* Frontend: the response cache.                                           *)
(***************************************************************************)
\* the expiry rescache.Set is called with
CacheTTL == 3600

\* the cache key in the variant without the IP version
CacheKey_noversion(repoid, ipversion, loc) ==
  Itoa(repoid) \o loc.Continent \o loc.Country \o loc.Region

\* fmt.Sprintf("%d%s%s%s%s", repoid, ipversion, Continent, Country, Region)
CacheKey(repoid, ipversion, loc) ==
  Itoa(repoid) \o ipversion \o loc.Continent \o loc.Country \o loc.Region

\* rescache.Get in the variant that compares the expiry the wrong way round
rescache_Get_stale(cache, key, t) ==
  IF key \in DOMAIN cache /\ cache[key].expireAt < t
  THEN [hit |-> TRUE, value |-> cache[key].value]
  ELSE [hit |-> FALSE, value |-> <<>>]

\* rescache.Get in the variant that still serves an entry at its expiry
rescache_Get_atexpiry(cache, key, t) ==
  IF key \in DOMAIN cache /\ cache[key].expireAt >= t
  THEN [hit |-> TRUE, value |-> cache[key].value]
  ELSE [hit |-> FALSE, value |-> <<>>]

\* rescache.Get at time t: the entry when it is there and has not expired
rescache_Get(cache, key, t) ==
  IF key \in DOMAIN cache /\ cache[key].expireAt > t
  THEN [hit |-> TRUE, value |-> cache[key].value]
  ELSE [hit |-> FALSE, value |-> <<>>]

\* the cache after rescache.Get: an expired entry is deleted by the lookup
AfterGet(cache, key, t) ==
  IF key \in DOMAIN cache /\ cache[key].expireAt <= t
  THEN [k \in DOMAIN cache \ {key} |-> cache[k]]
  ELSE cache

\* the cache after rescache.Set(key, value, expire) at time t
rescache_Set(cache, key, value, expire, t) ==
  [k \in DOMAIN cache \cup {key} |->
     IF k = key THEN [value |-> value, expireAt |-> t + expire] ELSE cache[k]]

\* rescache.Clear
rescache_Clear(cache) == <<>>

\* the guard of the handler in the variant that does not test the length
ShouldStore_any(enabled, response) == enabled

\* the guard "caching && len(response) > 0" of the handler
ShouldStore(enabled, response) == enabled /\ Len(response) > 0

(***************************************************************************)
(* Frontend: responses.                                                    *)
(***************************************************************************)
NoQuery == Query(<<>>, <<>>, <<>>)
NoClient == [parses |-> FALSE, v4 |-> FALSE, geo |-> UnknownLocation]

\* A response: status and body, the X-Cache-Hit header, and the trace of the
\* handler: its request, the cache key, the store and cache calls it made,
\* the candidates, whether it narrowed, the ids it rendered, the repo
NoResp ==
  [kind |-> "none", status |-> 0, body |-> <<>>, xcachehit |-> "unset",
   q |-> NoQuery, ip |-> NoClient, at |-> 0, key |-> <<>>, calls |-> {},
   allmirrors |-> <<>>, narrowed |-> FALSE, ids |-> <<>>, repoid |-> 0]

\* What a selection that computed a cache key answered: its key, status and
\* body, when it was handled, when the cache entry it stored or served was
\* set (-1: none), and whether the cache was cleared since
NoPrev == [some |-> FALSE, key |-> <<>>, status |-> 0, body |-> <<>>,
           xcachehit |-> "unset", at |-> 0, entryAt |-> -1, cleared |-> FALSE]

Remember(r, entryAt) ==
  [some |-> TRUE, key |-> r.key, status |-> r.status, body |-> r.body,
   xcachehit |-> r.xcachehit, at |-> r.at, entryAt |-> entryAt,
   cleared |-> FALSE]

(***************************************************************************)
(* Updater: the scheduler's query, the probes and the committer's write.   *)
(***************************************************************************)
\* backend.rescan-interval, its default
rescan == 7200

\* the jitter of one query is rand.Intn(JitterRange)
JitterRange == 60

HasSubstring(s, sub) ==
  \E i \in 1..(Len(s) - Len(sub) + 1) : SubSeq(s, i, i + Len(sub) - 1) = sub

\* iso_re.MatchString with iso_re = `isos`
iso_re(name) == HasSubstring(name, <<"i", "s", "o", "s">>)

\* The lib.CheckTask find_next_check builds from one row of its query
CheckTask(m, r) ==
  LET iso == iso_re(repos[r].name)
      repoarch == IF repos[r].major_release = 8 /\ ~iso
                  THEN repos[r].arch \o <<"/", "o", "s">>
                  ELSE repos[r].arch
      directory == IF repos[r].is_altarch THEN mirrors[m].basedir_altarch
                   ELSE mirrors[m].basedir
  IN  [MirrorID |-> m, RepoID |-> r,
       URL |-> HttpScheme \o mirrors[m].name \o directory \o <<"/">>
                 \o repos[r].path \o <<"/">> \o repos[r].name \o <<"/">> \o repoarch,
       Iso |-> iso, AltArch |-> repos[r].is_altarch, Valid |-> TRUE]

\* find_next_check in the variant whose query compares checked the wrong
\* way round
find_next_check_fresh(limit, t, jitter) ==
  LET rows == {p \in DOMAIN status :
                 /\ p[1] \in DOMAIN mirrors /\ p[2] \in DOMAIN repos
                 /\ status[p].checked > t - (rescan + jitter)
                 /\ repos[p[2]].enabled > 0}
      sorted == {o \in Orderings(rows) :
                   \A i, j \in 1..Len(o) :
                     i < j => status[o[i]].checked <= status[o[j]].checked}
  IN  {[i \in 1..Len(Prefix(o, limit)) |-> CheckTask(o[i][1], o[i][2])] :
         o \in sorted}

\* find_next_check in the variant whose query has no LIMIT
find_next_check_nolimit(limit, t, jitter) ==
  LET rows == {p \in DOMAIN status :
                 /\ p[1] \in DOMAIN mirrors /\ p[2] \in DOMAIN repos
                 /\ status[p].checked < t - (rescan + jitter)
                 /\ repos[p[2]].enabled > 0}
      sorted == {o \in Orderings(rows) :
                   \A i, j \in 1..Len(o) :
                     i < j => status[o[i]].checked <= status[o[j]].checked}
  IN  {[i \in 1..Len(o) |-> CheckTask(o[i][1], o[i][2])] : o \in sorted}

\* find_next_check(limit) run at time t with the jitter its rand.Intn gave:
\* the task lists the query can give, ORDER BY status.checked ASC (rows of
\* equal checked in any order) LIMIT limit
find_next_check(limit, t, jitter) ==
  LET rows == {p \in DOMAIN status :
                 /\ p[1] \in DOMAIN mirrors /\ p[2] \in DOMAIN repos
                 /\ status[p].checked < t - (rescan + jitter)
                 /\ repos[p[2]].enabled > 0}
      sorted == {o \in Orderings(rows) :
                   \A i, j \in 1..Len(o) :
                     i < j => status[o[i]].checked <= status[o[j]].checked}
  IN  {[i \in 1..Len(Prefix(o, limit)) |-> CheckTask(o[i][1], o[i][2])] :
         o \in sorted}

\* What a host answers to one GET: the transport error ("" for none), the
\* status code, and the digits of the first <timestamp> tag of the body
\* (<<>> when tsregex does not match)
Answer(err, code, digits) == [err |-> err, StatusCode |-> code, digits |-> digits]

\* the longest digit string strconv.ParseInt(s, 10, 64) can convert
MaxInt64Digits == 19

\* the value of a digit string
RECURSIVE Atoi(_)
Atoi(d) ==
  IF d = <<>> THEN 0
  ELSE 10 * Atoi(SubSeq(d, 1, Len(d) - 1))
         + (CHOOSE n \in 0..9 : DigitChar[n + 1] = d[Len(d)])

\* strconv.ParseInt(s, 10, 64) for the digit strings of the model (none of
\* 19 digits): converr is set when the value does not fit
ParseInt(d) ==
  IF Len(d) > MaxInt64Digits THEN [converr |-> TRUE, value |-> 0]
  ELSE [converr |-> FALSE, value |-> Atoi(d)]

\* repository_timestamp, given the host's answer for repodata/repomd.xml
repository_timestamp(ans) ==
  IF ans.err # ""
  THEN IF ans.err = "no such host" THEN <<0, -1>>
       ELSE IF ans.err = "deadline exceeded" THEN <<0, -2>>
       ELSE <<0, -3>>
  ELSE IF ans.StatusCode # 200 THEN <<0, ans.StatusCode>>
  ELSE IF ans.digits # <<>>
       THEN IF ~ParseInt(ans.digits).converr
            THEN <<ParseInt(ans.digits).value, ans.StatusCode>>
            ELSE <<0, ans.StatusCode>>
       ELSE <<0, -4>>

\* iso_timestamp at time t, given the host's answers for sha256sum.txt and
\* for CHECKSUM
iso_timestamp(first, second, t) ==
  IF first.err = "" THEN <<t, 200>>
  ELSE IF second.err = "" THEN <<t, 200>>
  ELSE <<0, 404>>

\* The lib.CheckResult execute_test sends for a valid task
CheckResult(task, outcome) ==
  [MirrorID |-> task.MirrorID, RepoID |-> task.RepoID,
   Timestamp |-> outcome[1], Result |-> outcome[2]]

\* update_mirror_status at time t, in the variant that leaves the timestamp
\* of a row alone when the probe did not succeed
update_mirror_status_keep(st, cr, t) ==
  [p \in DOMAIN st |->
     IF p = <<cr.MirrorID, cr.RepoID>>
     THEN [timestamp |-> IF cr.Result = 200 THEN cr.Timestamp ELSE st[p].timestamp,
           checked |-> t, result |-> cr.Result]
     ELSE st[p]]

\* update_mirror_status in the variant that stores the repository's
\* timestamp as the time of the check
update_mirror_status_probetime(st, cr, t) ==
  [p \in DOMAIN st |->
     IF p = <<cr.MirrorID, cr.RepoID>>
     THEN [timestamp |-> cr.Timestamp, checked |-> cr.Timestamp, result |-> cr.Result]
     ELSE st[p]]

\* update_mirror_status at time t: UPDATE status SET timestamp = ?,
\* checked = ?, result = ? WHERE mirror_id = ? AND repo_id = ?
update_mirror_status(st, cr, t) ==
  [p \in DOMAIN st |->
     IF p = <<cr.MirrorID, cr.RepoID>>
     THEN [timestamp |-> cr.Timestamp, checked |-> t, result |-> cr.Result]
     ELSE st[p]]

\* no probe was dispatched yet
NoOrder == [next |-> 1, flying |-> {}, queued |-> <<>>, written |-> <<>>,
            latest |-> <<>>]

\* no request is at the cache lookup
NoKeyed == [some |-> FALSE]

\* no POST handler is between its reads and its transaction
NoPending == {}

\* no update_mirror_status yet
NoWrite ==
  [some |-> FALSE,
   cr |-> [MirrorID |-> 0, RepoID |-> 0, Timestamp |-> 0, Result |-> 0],
   at |-> 0, inbatch |-> FALSE, found |-> FALSE, before |-> StatusInsert,
   after |-> StatusInsert]

\* the goroutines of inflight: a task is there as often as it is being probed
Running(fl, task) == IF task \in DOMAIN fl THEN fl[task] ELSE 0

Started(fl, task) ==
  [x \in DOMAIN fl \cup {task} |-> IF x = task THEN Running(fl, task) + 1 ELSE fl[x]]

Finished(fl, task) ==
  [x \in {y \in DOMAIN fl : y # task \/ fl[y] > 1} |->
     IF x = task THEN fl[x] - 1 ELSE fl[x]]

(***************************************************************************)
(* Frontend: the handlers.                                                 *)
(***************************************************************************)
\* the result list size of the sample configuration and the default
DefaultListSize == 10

\* the values of frontend.results the model is run with
ListSizes == {1, 2, DefaultListSize}

\* the narrowing test in the variant that narrows every non-empty list
NeedsNarrowing_always(allmirrors, size) == Len(allmirrors) > 0

\* "if len(allmirrors) > listsize"
NeedsNarrowing(allmirrors, size) == Len(allmirrors) > size

\* What can go wrong with the store while the handler runs: the Prepare of
\* get_repo_id (its error is dropped and QueryRow is called on the nil
\* statement: the goroutine panics and no status line is written), the query
\* of get_repo_id, and the queries of mirrors_with_repo, nearby_mirrors and
\* full_mirror_urls (each returns its empty result)
StoreFaults ==
  {"get_repo_id.Prepare", "get_repo_id.Query", "mirrors_with_repo",
   "nearby_mirrors", "full_mirror_urls"}

\* GET /?arch=&release=&repo=&ip= while the store fails as fault says
\* ("none": every query succeeds)
http_handler_root_with(fault) ==
  /\ nreq < MaxRequests
  /\ nreq' = nreq + 1
  /\ UNCHANGED <<storevars, listsize, caching, now, pipevars>>
  /\ \E q \in Queries, ip \in Clients :
       LET ipversion == IPversion(ip)
           base == [NoResp EXCEPT !.kind = "root", !.status = 200,
                                  !.q = q, !.ip = ip, !.at = now]
           missing == MissingParameter(q)
           found == IF fault = "get_repo_id.Query"
                    THEN [repoid |-> -1, repopath |-> <<>>, is_altarch |-> FALSE]
                    ELSE get_repo_id(q.release, q.repo, q.arch)
           clientloc == get_ip_location(ip)
           key == CacheKey(found.repoid, ipversion, clientloc)
           got == rescache_Get(rescache, key, now)
           looked == IF caching THEN AfterGet(rescache, key, now) ELSE rescache
           seen == [base EXCEPT
                      !.repoid = found.repoid,
                      !.key = key,
                      !.xcachehit = IF ~caching THEN "unset"
                                    ELSE IF got.hit THEN "true" ELSE "false",
                      !.calls = IF caching THEN {"get_repo_id", "rescache.Get"}
                                ELSE {"get_repo_id"}]
       IN
         \/ /\ missing # <<>>
            /\ resp' = [base EXCEPT !.status = 400,
                                    !.body = missing \o NotSpecified]
            /\ UNCHANGED <<rescache, last, prev>>
         \/ /\ missing = <<>>
            /\ fault = "get_repo_id.Prepare"
            /\ resp' = [base EXCEPT !.status = 0,
                                    !.calls = {"get_repo_id", "panic"}]
            /\ UNCHANGED <<rescache, last, prev>>
         \/ /\ missing = <<>>
            /\ fault # "get_repo_id.Prepare"
            /\ found.repoid <= 0
            /\ resp' = [base EXCEPT !.status = 404, !.body = InvalidCombination,
                                    !.calls = {"get_repo_id"}]
            /\ UNCHANGED <<rescache, last, prev>>
         \/ /\ missing = <<>>
            /\ fault # "get_repo_id.Prepare"
            /\ found.repoid > 0
            /\ caching /\ got.hit
            /\ LET r == [seen EXCEPT !.body = got.value]
               IN  /\ resp' = r
                   /\ last' = Remember(r, rescache[key].expireAt - CacheTTL)
            /\ prev' = last
            /\ UNCHANGED rescache
         \/ /\ missing = <<>>
            /\ fault # "get_repo_id.Prepare"
            /\ found.repoid > 0
            /\ ~(caching /\ got.hit)
            /\ prev' = last
            /\ \E allmirrors \in (IF fault = "mirrors_with_repo" THEN {<<>>}
                                  ELSE mirrors_with_repo(found.repoid)) :
                 IF Len(allmirrors) = 0
                 THEN LET r == [seen EXCEPT !.status = 404,
                                            !.calls = @ \cup {"mirrors_with_repo"}]
                      IN  /\ resp' = r
                          /\ rescache' = looked
                          /\ last' = Remember(r, -1)
                 ELSE \E ms \in (IF NeedsNarrowing(allmirrors, listsize)
                                 THEN IF fault = "nearby_mirrors" THEN {<<>>}
                                      ELSE nearby_mirrors(clientloc, ipversion,
                                                          allmirrors, listsize)
                                 ELSE {allmirrors}) :
                        LET response == IF fault = "full_mirror_urls" THEN <<>>
                                        ELSE full_mirror_urls(ms, found.repopath,
                                                              q.repo, q.arch,
                                                              found.is_altarch)
                            stored == ShouldStore(caching, response)
                            r == [seen EXCEPT
                                    !.body = response,
                                    !.allmirrors = allmirrors,
                                    !.narrowed = NeedsNarrowing(allmirrors, listsize),
                                    !.ids = ms,
                                    !.calls = @ \cup {"mirrors_with_repo",
                                                      "full_mirror_urls"}
                                         \cup (IF NeedsNarrowing(allmirrors, listsize)
                                               THEN {"nearby_mirrors"} ELSE {})
                                         \cup (IF stored THEN {"rescache.Set"} ELSE {})]
                        IN  /\ resp' = r
                            /\ rescache' = IF stored
                                           THEN rescache_Set(looked, key, response,
                                                             CacheTTL, now)
                                           ELSE looked
                            /\ last' = Remember(r, IF stored THEN now ELSE -1)

\* GET /?arch=&release=&repo=&ip= on a store that works
http_handler_root == http_handler_root_with("none")

\* GET /?arch=&release=&repo=&ip= on a store that works or fails somewhere
http_handler_root_failing ==
  \E fault \in {"none"} \cup StoreFaults : http_handler_root_with(fault)

\* DELETE /admin/cache
http_handler_cache_delete ==
  /\ IF caching
     THEN /\ rescache' = rescache_Clear(rescache)
          /\ last' = [last EXCEPT !.cleared = TRUE]
          /\ prev' = prev
          /\ resp' = [NoResp EXCEPT !.kind = "cache_delete", !.status = 204,
                                    !.at = now, !.calls = {"rescache.Clear"}]
     ELSE /\ UNCHANGED <<rescache, last, prev>>
          /\ resp' = [NoResp EXCEPT !.kind = "cache_delete", !.status = 404,
                                    !.at = now]
  /\ UNCHANGED <<storevars, listsize, caching, now, nreq, pipevars>>

\* GET /admin/cache in the variant that reports the counters of a cache that
\* was never initialised
http_handler_cache_get_stats ==
  /\ resp' = [NoResp EXCEPT !.kind = "cache_get", !.status = 200, !.at = now,
                            !.calls = {"rescache.EntryCount", "rescache.HitCount",
                                       "rescache.MissCount",
                                       "rescache.LookupCount"}]
  /\ UNCHANGED <<storevars, listsize, caching, rescache, last, prev, now, nreq,
                 pipevars>>

\* GET /admin/cache: the counters of the cache as JSON (the four calls read
\* the cache and leave its entries alone; the counters themselves are not
\* kept in the state, the response keeps the status and the calls)
http_handler_cache_get ==
  /\ IF caching
     THEN resp' = [NoResp EXCEPT !.kind = "cache_get", !.status = 200, !.at = now,
                                 !.calls = {"rescache.EntryCount",
                                            "rescache.HitCount",
                                            "rescache.MissCount",
                                            "rescache.LookupCount"}]
     ELSE resp' = [NoResp EXCEPT !.kind = "cache_get", !.status = 404, !.at = now]
  /\ UNCHANGED <<storevars, listsize, caching, rescache, last, prev, now, nreq,
                 pipevars>>

\* PATCH /admin/mirrors/{name} with the body {"enabled": false}
http_handler_mirror_patch ==
  /\ \E m \in DOMAIN mirrors :
       /\ mirrors[m].enabled > 0
       /\ mirrors' = [mirrors EXCEPT ![m].enabled = 0]
  /\ resp' = [NoResp EXCEPT !.kind = "mirror_patch", !.status = 204, !.at = now]
  /\ UNCHANGED <<repos, status, sqlite_sequence, listsize, caching, rescache,
                 last, prev, now,
                 nreq, pipevars>>

\* the step of the frontend's clock
TickStep == 3600

\* time passes
Tick ==
  /\ now + TickStep <= MaxTime
  /\ now' = now + TickStep
  /\ UNCHANGED <<storevars, frontvars, pipevars>>

\* The store after the administrator has posted the repositories and the
\* mirrors of the fleet: a status row for every compatible pair
StatusAfterPosts ==
  [p \in {x \in MirrorIds \X DOMAIN RepoRows :
            Compatible(MirrorRow(x[1], 1), RepoRows[x[2]])} |-> StatusInsert]

\* The content timestamp the mirror of host i serves in its repomd.xml
HostTimestamp(i) == 100 * (1 + ((i + 1) % 3)) + i

\* The status rows after the updater has checked every pair once, at time 0
StatusChecked ==
  [p \in DOMAIN StatusAfterPosts |->
     [timestamp |-> HostTimestamp(p[1]), checked |-> 0, result |-> 200]]

\* The updater after main: both channels empty, no goroutine started a probe
PipeIdle ==
  /\ taskchan = <<>> /\ resultchan = <<>> /\ inflight = <<>>
  /\ committer = "idle"
  /\ awaiting = {} /\ reselected = {} /\ lastwrite = NoWrite
  /\ nsched = 0
  /\ batch = 0
  /\ pending = NoPending
  /\ keyed = NoKeyed
  /\ order = NoOrder

\* The frontend after main: configuration read, cache empty
Init ==
  /\ mirrors = [i \in MirrorIds |-> MirrorRow(i, 1)]
  /\ repos = RepoRows
  /\ sqlite_sequence = SequenceAfterPosts(DOMAIN mirrors)
  /\ status = StatusChecked
  /\ listsize \in ListSizes
  /\ caching \in BOOLEAN
  /\ rescache = <<>>
  /\ now = 0
  /\ resp = NoResp
  /\ last = NoPrev
  /\ prev = NoPrev
  /\ nreq = 0
  /\ PipeIdle
  /\ hosts = [i \in MirrorIds |-> Answer("", 200, Itoa(HostTimestamp(i)))]

Next ==
  \/ http_handler_root
  \/ http_handler_cache_delete
  \/ http_handler_cache_get
  \/ http_handler_mirror_patch
  \/ Tick

Spec == Init /\ [][Next]_vars

\* The frontend on a store whose queries can fail
NextFailing ==
  \/ http_handler_root_failing
  \/ http_handler_mirror_patch
  \/ Tick

SpecFailing == Init /\ [][NextFailing]_vars

(***************************************************************************)
(* Updater: the goroutines of main, on a store the administrator has       *)
(* filled and the updater has worked on before.                            *)
(***************************************************************************)
\* What the host of mirror i can answer to a probe
HostAnswers(i) ==
  CASE i % 4 = 1 -> {Answer("", 200, Itoa(HostTimestamp(i))),
                     Answer("", 404, <<>>)}
    [] i % 4 = 2 -> {Answer("no such host", 0, <<>>),
                     Answer("deadline exceeded", 0, <<>>)}
    [] i % 4 = 3 -> {Answer("", 200, Itoa(HostTimestamp(i) + 1)),
                     Answer("", 200, <<>>),
                     Answer("connection refused", 0, <<>>)}
    [] OTHER     -> {Answer("", 200, [k \in 1..(MaxInt64Digits + 1) |-> "9"])}

\* the ways the hosts of the fleet can answer
HostBehaviours ==
  {h \in [MirrorIds -> UNION {HostAnswers(i) : i \in MirrorIds}] :
     \A i \in MirrorIds : h[i] \in HostAnswers(i)}

\* the two branches of execute_test at time t, the host answering with ans
Outcome(task, ans, t) ==
  IF task.Iso THEN iso_timestamp(ans, ans, t) ELSE repository_timestamp(ans)

\* the clock when the updater is started
UpdaterStart == 3 * rescan

\* seconds between two readings of the updater's clock
SleepStep == 30

\* The status rows the updater finds: a pair checked with success about a
\* rescan interval ago, a pair never checked, a pair checked with success
\* less than a rescan interval ago, and pairs checked a moment ago
StatusBeforeUpdater ==
  [p \in DOMAIN StatusAfterPosts |->
     CASE p[1] = 1 -> [timestamp |-> HostTimestamp(p[1]),
                       checked |-> UpdaterStart - rescan - SleepStep, result |-> 200]
       [] p[1] = 2 -> StatusInsert
       [] p[1] = 3 /\ p[2] = 1 ->
                      [timestamp |-> HostTimestamp(p[1]),
                       checked |-> UpdaterStart - rescan + (SleepStep \div 2),
                       result |-> 200]
       [] OTHER    -> [timestamp |-> HostTimestamp(p[1]),
                       checked |-> UpdaterStart - SleepStep, result |-> 200]]

InitUpdater ==
  /\ mirrors = [i \in MirrorIds |-> MirrorRow(i, 1)]
  /\ repos = RepoRows
  /\ sqlite_sequence = SequenceAfterPosts(DOMAIN mirrors)
  /\ status = StatusBeforeUpdater
  /\ listsize = DefaultListSize
  /\ caching = FALSE
  /\ rescache = <<>>
  /\ now = UpdaterStart
  /\ resp = NoResp
  /\ last = NoPrev
  /\ prev = NoPrev
  /\ nreq = 0
  /\ PipeIdle
  /\ hosts \in HostBehaviours

PairOf(x) == <<x.MirrorID, x.RepoID>>

\* One round of the first goroutine of main: with taskchan empty, the tasks
\* of find_next_check(cap(taskchan)) are sent to taskchan (no send blocks:
\* the channel was empty and takes cap(taskchan) tasks)
Enqueue ==
  /\ Len(taskchan) = 0
  /\ \E jitter \in 0..(JitterRange - 1) :
       \E tasks \in find_next_check(QueueCap, now, jitter) :
         LET selected == {PairOf(tasks[i]) : i \in 1..Len(tasks)}
         IN  /\ taskchan' = tasks
             /\ reselected' = selected \cap awaiting
             /\ awaiting' = awaiting \cup selected
  /\ UNCHANGED <<storevars, frontvars, now, resultchan, inflight, committer,
                 lastwrite, hosts, batch, pending, keyed, order>>

\* The scheduler in a behaviour of at most MaxRounds rounds
Scheduler ==
  /\ nsched < MaxRounds
  /\ Enqueue
  /\ nsched' = IF taskchan' = <<>> THEN nsched ELSE nsched + 1

\* One round of the second goroutine of main: go execute_test(task, resultchan)
Dispatcher ==
  /\ taskchan # <<>>
  /\ taskchan' = Tail(taskchan)
  /\ inflight' = Started(inflight, Head(taskchan))
  /\ UNCHANGED <<storevars, frontvars, now, resultchan, committer, awaiting,
                 reselected, lastwrite, nsched, hosts, batch, pending, keyed, order>>

\* execute_test in the variant that lacks the return for an invalid task
execute_test_noskip ==
  /\ \E task \in DOMAIN inflight :
       /\ Len(resultchan) < QueueCap
       /\ resultchan' = Append(resultchan,
              CheckResult(task, Outcome(task, hosts[task.MirrorID], now)))
       /\ inflight' = Finished(inflight, task)
  /\ UNCHANGED <<storevars, frontvars, now, taskchan, committer, awaiting,
                 reselected, lastwrite, nsched, hosts, batch, pending, keyed, order>>

\* execute_test comes to its end: an invalid task is skipped, the result of
\* a valid one is sent to resultchan (the send waits while the channel is full)
execute_test ==
  /\ \E task \in DOMAIN inflight :
       IF ~task.Valid
       THEN /\ inflight' = Finished(inflight, task)
            /\ UNCHANGED resultchan
       ELSE /\ Len(resultchan) < QueueCap
            /\ resultchan' = Append(resultchan,
                   CheckResult(task, Outcome(task, hosts[task.MirrorID], now)))
            /\ inflight' = Finished(inflight, task)
  /\ UNCHANGED <<storevars, frontvars, now, taskchan, committer, awaiting,
                 reselected, lastwrite, nsched, hosts, batch, pending, keyed, order>>

\* The third goroutine of main finds resultchan at least half full and
\* enters "for result := range resultchan", which it never leaves: the
\* channel is never closed
CommitterBegin ==
  /\ committer = "idle"
  /\ Len(resultchan) >= QueueCap \div 2
  /\ committer' = "draining"
  /\ batch' = Len(resultchan)
  /\ UNCHANGED <<storevars, frontvars, now, taskchan, resultchan, inflight,
                 awaiting, reselected, lastwrite, nsched, hosts, pending, keyed, order>>

\* One iteration of "for result := range resultchan"
CommitterWrite ==
  /\ committer = "draining"
  /\ resultchan # <<>>
  /\ LET cr == Head(resultchan)
         after == update_mirror_status(status, cr, now)
     IN  /\ status' = after
         /\ lastwrite' = [some |-> TRUE, cr |-> cr, at |-> now,
                          inbatch |-> batch > 0,
                          found |-> PairOf(cr) \in DOMAIN status,
                          before |-> IF PairOf(cr) \in DOMAIN status
                                     THEN status[PairOf(cr)] ELSE StatusInsert,
                          after |-> IF PairOf(cr) \in DOMAIN after
                                    THEN after[PairOf(cr)] ELSE StatusInsert]
         /\ awaiting' = awaiting \ (IF PairOf(cr) \in DOMAIN status
                                    THEN {PairOf(cr)} ELSE {})
  /\ resultchan' = Tail(resultchan)
  /\ batch' = IF batch > 0 THEN batch - 1 ELSE 0
  /\ UNCHANGED <<mirrors, repos, sqlite_sequence, frontvars, now, taskchan,
                 inflight, committer,
                 reselected, nsched, hosts, pending, keyed, order>>

\* time.Sleep in the goroutines: the clock of the updater moves on
Sleep ==
  /\ now + SleepStep <= UpdaterStart + (MaxSleeps * SleepStep)
  /\ now' = now + SleepStep
  /\ UNCHANGED <<storevars, frontvars, pipevars>>

\* PATCH /admin/repos/{id} with the body {"enabled": false}
http_handler_repo_patch ==
  /\ \E r \in DOMAIN repos :
       /\ repos[r].enabled > 0
       /\ repos' = [repos EXCEPT ![r].enabled = 0]
  /\ resp' = [NoResp EXCEPT !.kind = "repo_patch", !.status = 204, !.at = now]
  /\ UNCHANGED <<mirrors, status, sqlite_sequence, listsize, caching, rescache,
                 last, prev, now,
                 nreq, pipevars>>

NextUpdater ==
  \/ Scheduler
  \/ Dispatcher
  \/ execute_test
  \/ CommitterBegin
  \/ CommitterWrite
  \/ Sleep
  \/ http_handler_repo_patch

SpecUpdater == InitUpdater /\ [][NextUpdater]_vars

(***************************************************************************)
(* Properties of the frontend, checked under Spec.  A response of the      *)
(* selection handler is the value of resp right after http_handler_root:   *)
(* the store is then the store the handler read.                           *)
(***************************************************************************)
IsSelection == resp.kind = "root"

\* the mirrors eligible for a repo: a status row of the repo joined to an
\* enabled mirror
Eligible(repoid) ==
  {m \in DOMAIN mirrors : <<m, repoid>> \in DOMAIN status /\ mirrors[m].enabled > 0}

\* a selection for an enabled repo that has no eligible mirror
ZeroEligible == IsSelection /\ resp.repoid > 0 /\ Eligible(resp.repoid) = {}

\* C1 as claimed: for an enabled repo with zero eligible mirrors the
\* selection answers 404, in every state of store and cache, and does not
\* consult the response cache.
C1_NotFoundWithoutCache ==
  ZeroEligible => resp.status = 404 /\ "rescache.Get" \notin resp.calls

\* C1 as amended: for an enabled repo with zero eligible mirrors the
\* selection answers 404 with an empty body and stores nothing, unless the
\* cache holds a live entry under the request's key, which is served with
\* status 200; with caching enabled the cache is consulted first.
C1_NotFoundUnlessCached ==
  ZeroEligible =>
    /\ resp.xcachehit # "true" =>
         /\ resp.status = 404
         /\ resp.body = <<>>
         /\ "rescache.Set" \notin resp.calls
         /\ resp.key \notin DOMAIN rescache
    /\ resp.xcachehit = "true" => resp.status = 200 /\ resp.body # <<>>
    /\ caching <=> "rescache.Get" \in resp.calls

C1_Witness ==
  ZeroEligible /\ caching /\ resp.status = 404 /\ "mirrors_with_repo" \in resp.calls

\* two consecutive selections that computed the same cache key, the second
\* less than the TTL after the first
SameKeyWithinTTL ==
  /\ caching
  /\ prev.some /\ last.some
  /\ last.key = prev.key
  /\ last.at < prev.at + CacheTTL

\* C2 as claimed: with caching enabled, two selections with an identical
\* cache key, the second within the TTL window of the first, return
\* byte-identical bodies and the second reports a cache hit.
C2_Idempotent ==
  SameKeyWithinTTL => last.body = prev.body /\ last.xcachehit = "true"

\* C2 as amended: when the first selection stored its (non-empty) body or
\* was served from the cache, and the second is made while that entry is
\* live (less than the TTL after the entry was set, the cache not cleared
\* in between), the bodies are byte-identical and the second is a cache hit.
C2_IdempotentWhileLive ==
  ( /\ SameKeyWithinTTL
    /\ prev.entryAt >= 0
    /\ last.at < prev.entryAt + CacheTTL
    /\ ~prev.cleared )
  => /\ last.body = prev.body
     /\ last.xcachehit = "true"
     /\ last.status = 200

C2_Witness ==
  /\ SameKeyWithinTTL
  /\ prev.entryAt >= 0 /\ last.at < prev.entryAt + CacheTTL /\ ~prev.cleared
  /\ last.xcachehit = "true"
  /\ prev.xcachehit = "false"
  /\ Len(last.body) > 0

\* C3: no cache entry holds an empty body, and a selection that rendered an
\* empty body made no Set and leaves no entry under its key.
C3_NoEmptyEntry ==
  /\ \A k \in DOMAIN rescache : rescache[k].value # <<>>
  /\ (IsSelection /\ resp.key # <<>> /\ resp.body = <<>>) =>
       /\ "rescache.Set" \notin resp.calls
       /\ resp.key \notin DOMAIN rescache

C3_Witness ==
  /\ IsSelection /\ caching
  /\ resp.status = 200 /\ resp.body = <<>>
  /\ "full_mirror_urls" \in resp.calls

\* the mirror a line of the body belongs to (0: none)
LineMirror(line) ==
  LET ms == {m \in DOMAIN mirrors :
               LET p == HttpScheme \o mirrors[m].name \o <<"/">>
               IN  Len(line) >= Len(p) /\ SubSeq(line, 1, Len(p)) = p}
  IN  IF ms = {} THEN 0 ELSE CHOOSE m \in ms : TRUE

\* the tier a mirror matches for a client: 1 region, 2 country, 3 continent,
\* 4 none; every tier asks for the client's IP version and an enabled mirror
TierOf(m, ip) ==
  LET loc == get_ip_location(ip)
      ok == /\ mirrors[m].enabled > 0
            /\ (IF IPversion(ip) = <<"4">> THEN mirrors[m].ipv4 ELSE mirrors[m].ipv6) > 0
            /\ mirrors[m].continent = loc.Continent
  IN  IF ~ok THEN 4
      ELSE IF mirrors[m].country # loc.Country THEN 3
      ELSE IF mirrors[m].region # loc.Region THEN 2
      ELSE 1

\* C4: when narrowing is triggered and the client matches tier 1 for some
\* candidate, the URLs of the response are in tier order: every tier-1
\* mirror before every tier-2 or tier-3 mirror, and tier 2 before tier 3.
C4_TierOrder ==
  ( /\ IsSelection /\ resp.narrowed
    /\ \E m \in Range(resp.allmirrors) : TierOf(m, resp.ip) = 1 )
  => LET lines == Lines(resp.body)
     IN  \A i, j \in 1..Len(lines) :
           i < j => TierOf(LineMirror(lines[i]), resp.ip)
                      <= TierOf(LineMirror(lines[j]), resp.ip)

OsSuffix == <<"/", "B", "a", "s", "e", "O", "S", "/", "x", "8", "6", "_", "6", "4", "/", "o", "s", "/">>

\* the scenario of C9: the release-8 repo BaseOS/x86_64 with 3 eligible
\* mirrors, the client's region that of exactly one of them
Scenario1 ==
  /\ IsSelection
  /\ resp.q = Query(<<"8">>, BaseOS, x86_64)
  /\ resp.repoid > 0
  /\ Cardinality(Eligible(resp.repoid)) = 3
  /\ resp.ip.parses
  /\ Cardinality({m \in Eligible(resp.repoid) :
                    mirrors[m].region = resp.ip.geo.Region}) = 1

MirrorA ==
  CHOOSE m \in Eligible(resp.repoid) : mirrors[m].region = resp.ip.geo.Region

RepoNotSpecified == <<"r", "e", "p", "o", " ", "n", "o", "t", " ", "s", "p", "e", "c", "i", "f", "i", "e", "d", "\n">>

\* C10: a selection request without the repo parameter gets 400 and the body
\* "repo not specified\n"; a request lacking any of arch, release, repo gets
\* 400 with a body naming a parameter it lacks, and the handler returns
\* before any store or cache access.
C10_BadRequest ==
  (IsSelection /\ (resp.q.arch = <<>> \/ resp.q.release = <<>> \/ resp.q.repo = <<>>))
  => /\ resp.status = 400
     /\ resp.calls = {}
     /\ \/ resp.q.arch = <<>> /\ resp.body = <<"a", "r", "c", "h">> \o NotSpecified
        \/ resp.q.release = <<>> /\ resp.body = <<"r", "e", "l", "e", "a", "s", "e">> \o NotSpecified
        \/ resp.q.repo = <<>> /\ resp.body = RepoNotSpecified
     /\ (resp.q.arch # <<>> /\ resp.q.release # <<>>) => resp.body = RepoNotSpecified

C10_Witness ==
  /\ IsSelection
  /\ resp.q.repo = <<>> /\ resp.q.arch # <<>> /\ resp.q.release # <<>>
  /\ resp.status = 400 /\ resp.body = RepoNotSpecified

(***************************************************************************)
(* Properties of the updater, checked under SpecUpdater.                   *)
(***************************************************************************)
\* C5: a (mirror, repo) pair that was put on the task queue is not selected
\* again by the scheduler before the committer has written the pair's status
\* row (and with it its checked value).
C5_NoReselection == reselected = {}

RECURSIVE SumRunning(_, _)
SumRunning(fl, tasks) ==
  IF tasks = {} THEN 0
  ELSE LET x == CHOOSE y \in tasks : TRUE
       IN  fl[x] + SumRunning(fl, tasks \ {x})

\* the tasks of a pair that are outstanding: on taskchan, being probed, or
\* with the result on resultchan, not yet written
Outstanding(p) ==
  Cardinality({i \in 1..Len(taskchan) : PairOf(taskchan[i]) = p})
  + SumRunning(inflight, {x \in DOMAIN inflight : PairOf(x) = p})
  + Cardinality({i \in 1..Len(resultchan) : PairOf(resultchan[i]) = p})

\* C6: the scheduler never enqueues a task for a pair while an earlier task
\* of the pair is outstanding: no pair ever has two outstanding tasks.
C6_OneOutstanding == \A p \in DOMAIN status : Outstanding(p) <= 1

\* the committer has just persisted the result of a repository-metadata
\* probe that got 404, for a pair whose row held a successful check
Persisted404 ==
  /\ lastwrite.some /\ lastwrite.found
  /\ lastwrite.cr.Result = 404
  /\ ~iso_re(repos[lastwrite.cr.RepoID].name)
  /\ lastwrite.before.result = 200

\* C7 as claimed: the persisted row has result 404 and the timestamp of the
\* prior successful check.
C7_TimestampKept ==
  Persisted404 => /\ lastwrite.after.result = 404
                  /\ lastwrite.after.timestamp = lastwrite.before.timestamp

\* C7 as amended: the persisted row has result 404, checked set to the time
\* of the write, and timestamp 0: the timestamp of the prior successful
\* check is overwritten.
C7_TimestampZero ==
  Persisted404 => /\ lastwrite.after.result = 404
                  /\ lastwrite.after.timestamp = 0
                  /\ lastwrite.after.checked = lastwrite.at

C7_Witness ==
  /\ Persisted404
  /\ lastwrite.before.timestamp > 0
  /\ status[PairOf(lastwrite.cr)] = lastwrite.after
  /\ status[PairOf(lastwrite.cr)].timestamp = 0

\* no stage of the updater can take a step, now or at any later time: no
\* task queued, no probe running, no row that find_next_check can select
\* (every row is of a disabled repo), the committer neither able to begin
\* nor to write
AtRest ==
  /\ taskchan = <<>>
  /\ DOMAIN inflight = {}
  /\ \A p \in DOMAIN status : repos[p[2]].enabled = 0
  /\ ~(committer = "idle" /\ Len(resultchan) >= QueueCap \div 2)
  /\ ~(committer = "draining" /\ resultchan # <<>>)

\* C8: every result a probe has emitted is eventually written to the status
\* row of its pair, whatever the number of pending results: the updater
\* never comes to rest with a result still waiting on the result queue.
C8_NoResultLeftWaiting == AtRest => resultchan = <<>>

(***************************************************************************)
(* execute_test on every task a lib.CheckTask can be, also the invalid     *)
(* ones that find_next_check never builds: the dispatcher and the probes   *)
(* work on a task queue filled with such tasks.                            *)
(***************************************************************************)
\* tasks on taskchan when the dispatcher starts
MaxTasks == 3

\* the tasks of the pairs of the store, valid and invalid
AnyTasks ==
  {[CheckTask(p[1], p[2]) EXCEPT !.Valid = v] :
     p \in DOMAIN StatusAfterPosts, v \in BOOLEAN}

RECURSIVE SeqsUpTo(_, _)
SeqsUpTo(S, n) ==
  IF n = 0 THEN {<<>>}
  ELSE LET shorter == SeqsUpTo(S, n - 1)
       IN  shorter \cup {Append(q, x) : q \in shorter, x \in S}

InitProbe ==
  /\ mirrors = [i \in MirrorIds |-> MirrorRow(i, 1)]
  /\ repos = RepoRows
  /\ sqlite_sequence = SequenceAfterPosts(DOMAIN mirrors)
  /\ status = StatusBeforeUpdater
  /\ listsize = DefaultListSize
  /\ caching = FALSE
  /\ rescache = <<>>
  /\ now = UpdaterStart
  /\ resp = NoResp
  /\ last = NoPrev
  /\ prev = NoPrev
  /\ nreq = 0
  /\ taskchan \in SeqsUpTo(AnyTasks, MaxTasks)
  /\ resultchan = <<>> /\ inflight = <<>>
  /\ committer = "idle"
  /\ awaiting = {} /\ reselected = {} /\ lastwrite = NoWrite
  /\ nsched = 0
  /\ batch = 0
  /\ pending = NoPending
  /\ keyed = NoKeyed
  /\ order = NoOrder
  /\ hosts \in HostBehaviours

NextProbe ==
  \/ Dispatcher
  \/ execute_test

SpecProbe == InitProbe /\ [][NextProbe]_vars

(***************************************************************************)
(* Properties of the probes, checked under SpecProbe.                      *)
(***************************************************************************)
\* C11: every step that ends the goroutine of a valid task puts exactly one
\* CheckResult with the task's mirror id and repo id on the result queue;
\* the step that ends the goroutine of an invalid task puts nothing there;
\* nothing else puts a result on the queue (taking a task from the task
\* queue starts one goroutine and no result).
C11_OneResultPerTask ==
  [][ /\ Len(taskchan') < Len(taskchan) =>
           /\ inflight' = Started(inflight, Head(taskchan))
           /\ resultchan' = resultchan
      /\ \A task \in DOMAIN inflight :
           Running(inflight', task) < Running(inflight, task) =>
             /\ Running(inflight', task) = Running(inflight, task) - 1
             /\ \A other \in DOMAIN inflight \ {task} :
                  Running(inflight', other) = Running(inflight, other)
             /\ IF task.Valid
                THEN /\ Len(resultchan') = Len(resultchan) + 1
                     /\ SubSeq(resultchan', 1, Len(resultchan)) = resultchan
                     /\ resultchan'[Len(resultchan')].MirrorID = task.MirrorID
                     /\ resultchan'[Len(resultchan')].RepoID = task.RepoID
                ELSE resultchan' = resultchan
      /\ resultchan' # resultchan =>
           \E task \in DOMAIN inflight :
             task.Valid /\ Running(inflight', task) < Running(inflight, task)
    ]_vars

C11_Witness ==
  /\ taskchan = <<>>
  /\ resultchan # <<>>
  /\ \E task \in DOMAIN inflight : ~task.Valid
  /\ \A task \in DOMAIN inflight : ~task.Valid

(***************************************************************************)
(* The updater running for ever: the scheduler makes any number of rounds, *)
(* and what bounds the model is the number of probes and unwritten results *)
(* there are when a round starts.  Every goroutine of main loops for ever  *)
(* and every probe ends (the HTTP client has a timeout), so each stage is  *)
(* taken when it stays possible.                                           *)
(***************************************************************************)
\* probes running and results unwritten when the scheduler starts a round
MaxBacklog == 2

RECURSIVE TotalRunning(_, _)
TotalRunning(fl, tasks) ==
  IF tasks = {} THEN 0
  ELSE LET x == CHOOSE y \in tasks : TRUE
       IN  fl[x] + TotalRunning(fl, tasks \ {x})

Backlog == TotalRunning(inflight, DOMAIN inflight) + Len(resultchan)

SchedulerRound ==
  /\ Backlog < MaxBacklog
  /\ Enqueue
  /\ nsched' = nsched

\* the fleet with one mirror more, which gives more pairs than the queues
\* take
MoreMirrorIds == 1..(MaxMirrors + 1)

\* The status rows after the administrator has posted that fleet
StatusOfMore ==
  [p \in {x \in MoreMirrorIds \X DOMAIN RepoRows :
            Compatible(MirrorRow(x[1], 1), RepoRows[x[2]])} |-> StatusInsert]

\* The same rows when the updater has worked on them before: the pairs of a
\* set were checked not long ago, the others one after the other in a pass
\* made two rescan intervals ago, when no host gave a timestamp
StatusOfMoreChecked(fresh) ==
  [p \in DOMAIN StatusOfMore |->
     IF p \in fresh
     THEN [timestamp |-> HostTimestamp(p[1]), checked |-> UpdaterStart - SleepStep,
           result |-> 200]
     ELSE [timestamp |-> 0,
           checked |-> (UpdaterStart - (2 * rescan)) + (2 * p[1]) + p[2],
           result |-> -3]]

\* two ways the hosts of that fleet can answer: the hosts that can be
\* reached give their timestamp, or no host gives one
MoreHostBehaviours ==
  {[i \in MoreMirrorIds |->
      CASE i % 4 = 1 -> IF up THEN Answer("", 200, Itoa(HostTimestamp(i)))
                        ELSE Answer("", 404, <<>>)
        [] i % 4 = 2 -> IF up THEN Answer("no such host", 0, <<>>)
                        ELSE Answer("deadline exceeded", 0, <<>>)
        [] i % 4 = 3 -> IF up THEN Answer("", 200, Itoa(HostTimestamp(i) + 1))
                        ELSE Answer("connection refused", 0, <<>>)
        [] OTHER     -> CHOOSE a \in HostAnswers(i) : TRUE] :
     up \in BOOLEAN}

\* The updater is started on a store it has worked on before, where more
\* pairs are stale than the queues take, or as many, or fewer
InitForever ==
  /\ mirrors = [i \in MoreMirrorIds |-> MirrorRow(i, 1)]
  /\ repos = RepoRows
  /\ sqlite_sequence = SequenceAfterPosts(DOMAIN mirrors)
  /\ status \in {StatusOfMoreChecked(fresh) :
                   fresh \in {{}, {<<1, 1>>}, {<<1, 1>>, <<2, 1>>, <<3, 1>>}}}
  /\ listsize = DefaultListSize
  /\ caching = FALSE
  /\ rescache = <<>>
  /\ now = UpdaterStart
  /\ resp = NoResp
  /\ last = NoPrev
  /\ prev = NoPrev
  /\ nreq = 0
  /\ PipeIdle
  /\ hosts \in MoreHostBehaviours

NextForever ==
  \/ SchedulerRound
  \/ Dispatcher
  \/ execute_test
  \/ CommitterBegin
  \/ CommitterWrite
  \/ Sleep

SpecForever ==
  /\ InitForever
  /\ [][NextForever]_vars
  /\ WF_vars(SchedulerRound)
  /\ WF_vars(Dispatcher)
  /\ WF_vars(execute_test)
  /\ WF_vars(CommitterBegin)
  /\ WF_vars(CommitterWrite)

(***************************************************************************)
(* Properties of the updater running for ever, checked under SpecForever.  *)
(***************************************************************************)
\* a row of an enabled repo whose checked is older than the rescan interval
\* plus the largest jitter
StaleEnabled(p) ==
  /\ p \in DOMAIN status
  /\ repos[p[2]].enabled > 0
  /\ status[p].checked < now - (rescan + (JitterRange - 1))

\* C12: every row of an enabled repo whose checked is older than the rescan
\* interval plus the largest jitter is eventually probed and gets its
\* checked updated.
C12_StaleEventuallyChecked ==
  \A p \in DOMAIN StatusOfMore : StaleEnabled(p) ~> ~StaleEnabled(p)

C12_Witness ==
  /\ lastwrite.some /\ lastwrite.found
  /\ lastwrite.before.checked < lastwrite.at - (rescan + (JitterRange - 1))
  /\ status[PairOf(lastwrite.cr)].checked = lastwrite.at
  /\ ~StaleEnabled(PairOf(lastwrite.cr))
  /\ \A p \in DOMAIN status : ~StaleEnabled(p)
  /\ Cardinality({p \in DOMAIN status : status[p].checked >= UpdaterStart})
       > QueueCap

(***************************************************************************)
(* Properties of the response cache's expiry, checked under Spec.          *)
(***************************************************************************)
\* a step of the selection handler that looked its key up in the cache
LooksUp == nreq' = nreq + 1 /\ "rescache.Get" \in resp'.calls

\* C13: a cached response is never served after its TTL: a body stored at
\* time t is returned as a hit only by lookups before t + 3600, and a lookup
\* at or after the expiry is a miss that computes the response from the store.
C13_NeverServedAfterTTL ==
  [][ LooksUp =>
        LET key == resp'.key
        IN  /\ resp'.xcachehit = "true" =>
                 /\ key \in DOMAIN rescache
                 /\ now < rescache[key].expireAt
                 /\ resp'.body = rescache[key].value
                 /\ "mirrors_with_repo" \notin resp'.calls
            /\ (key \in DOMAIN rescache /\ now >= rescache[key].expireAt) =>
                 /\ resp'.xcachehit = "false"
                 /\ "mirrors_with_repo" \in resp'.calls
            /\ "rescache.Set" \in resp'.calls =>
                 /\ key \in DOMAIN rescache'
                 /\ rescache'[key].expireAt = now + CacheTTL
                 /\ rescache'[key].value = resp'.body
    ]_vars

\* the entry a selection stored was looked up again exactly at its expiry
C13_Witness ==
  /\ caching
  /\ prev.some /\ last.some /\ ~prev.cleared
  /\ prev.key = last.key
  /\ prev.entryAt >= 0
  /\ last.at = prev.entryAt + CacheTTL
  /\ IsSelection /\ resp.key = last.key /\ resp.at = last.at
  /\ resp.xcachehit = "false"
  /\ "mirrors_with_repo" \in resp.calls

(***************************************************************************)
(* Properties of the caching toggle, checked under Spec.                   *)
(***************************************************************************)
CacheCalls ==
  {"rescache.Get", "rescache.Set", "rescache.Clear", "rescache.EntryCount",
   "rescache.HitCount", "rescache.MissCount", "rescache.LookupCount"}

\* C14: with caching disabled no selection makes a cache get or set, and
\* GET /admin/cache and DELETE /admin/cache answer 404 without a call to the
\* cache; with caching enabled DELETE answers 204 and GET answers 200.
C14_CachingToggle ==
  /\ ~caching =>
       /\ resp.calls \cap CacheCalls = {}
       /\ rescache = <<>>
       /\ IsSelection => resp.xcachehit = "unset"
       /\ resp.kind \in {"cache_get", "cache_delete"} => resp.status = 404
  /\ caching =>
       /\ resp.kind = "cache_delete" => resp.status = 204
       /\ resp.kind = "cache_get" => resp.status = 200

\* with caching disabled a selection was computed and the statistics were
\* asked for
C14_Witness ==
  /\ ~caching
  /\ last.some /\ last.status = 200 /\ last.xcachehit = "unset"
  /\ resp.kind = "cache_get" /\ resp.status = 404

(***************************************************************************)
(* The administrator's requests: mirrors and repos are created, patched    *)
(* and deleted on a store that starts empty.                               *)
(***************************************************************************)
\* mirrors and repos the administrator posts in one behaviour
MaxMirrorPosts == 2
MaxRepos == 2

\* SELECT mirror_id FROM mirrors WHERE name = ? LIMIT 1
mirror_name_to_id(name) ==
  LET rows == {m \in DOMAIN mirrors : mirrors[m].name = name}
  IN  IF rows = {} THEN [id |-> -1, exists |-> FALSE]
      ELSE [id |-> CHOOSE m \in rows : TRUE, exists |-> TRUE]

\* a table with one more row, and a table without the rows of a set of keys
WithRow(table, key, row) ==
  [k \in DOMAIN table \cup {key} |-> IF k = key THEN row ELSE table[k]]

WithoutRows(table, keys) == [k \in DOMAIN table \ keys |-> table[k]]

\* INSERT INTO status (mirror_id, repo_id, checked) VALUES (m, r, 0) for the
\* pairs of a set: the insert of a pair that has a row fails on the primary
\* key and leaves the row as it is
InsertStatus(pairs) ==
  [p \in DOMAIN status \cup pairs |->
     IF p \in DOMAIN status THEN status[p] ELSE StatusInsert]

\* the test of http_handler_mirror_post for a status row of the new mirror
CompatibleEnabled(mirror, repo) ==
  \/ (mirror.basedir # <<>> /\ ~repo.is_altarch /\ repo.enabled > 0)
  \/ (mirror.basedir_altarch # <<>> /\ repo.is_altarch /\ repo.enabled > 0)

\* POST /admin/mirrors with name, basedir and basedir_altarch of host i and
\* "enabled": true
http_handler_mirror_post ==
  \E i \in MirrorIds :
    LET newmirror == MirrorRow(i, 1)
        id == sqlite_sequence.mirrors + 1
    IN  IF mirror_name_to_id(newmirror.name).exists
        THEN /\ resp' = [NoResp EXCEPT !.kind = "mirror_post", !.status = 409,
                                       !.at = now]
             /\ UNCHANGED <<storevars, listsize, caching, rescache, last, prev,
                            now, nreq, pipevars>>
        ELSE /\ id <= MaxMirrorPosts
             /\ mirrors' = WithRow(mirrors, id, newmirror)
             /\ sqlite_sequence' = [sqlite_sequence EXCEPT !.mirrors = id]
             /\ status' = InsertStatus({<<id, r>> : r \in
                            {x \in DOMAIN repos :
                               CompatibleEnabled(newmirror, repos[x])}})
             /\ resp' = [NoResp EXCEPT !.kind = "mirror_post", !.status = 201,
                                       !.at = now]
             /\ UNCHANGED <<repos, listsize, caching, rescache, last, prev, now,
                            nreq, pipevars>>

\* the bodies of POST /admin/repos: the repositories of the model, enabled
\* or not
RepoBodies ==
  {[RepoRows[r] EXCEPT !.enabled = en] : r \in DOMAIN RepoRows, en \in {0, 1}}

\* POST /admin/repos: the id of the new repo is that of the last row of
\* repolist() equal to the body in every field (rows in the order of their
\* ids)
http_handler_repo_post ==
  \E newrepo \in RepoBodies :
    LET id == sqlite_sequence.repos + 1
        inserted == WithRow(repos, id, newrepo)
        matches == {r \in DOMAIN inserted : inserted[r] = newrepo}
        newid == CHOOSE r \in matches : \A x \in matches : x <= r
    IN  /\ id <= MaxRepos
        /\ repos' = inserted
        /\ sqlite_sequence' = [sqlite_sequence EXCEPT !.repos = id]
        /\ status' = InsertStatus({<<m, newid>> : m \in
                       {x \in DOMAIN mirrors : Compatible(mirrors[x], newrepo)}})
        /\ resp' = [NoResp EXCEPT !.kind = "repo_post", !.status = 201,
                                  !.at = now]
        /\ UNCHANGED <<mirrors, listsize, caching, rescache, last, prev, now,
                       nreq, pipevars>>

\* the rows one UPDATE of PATCH /admin/mirrors/{name} can make of a row, for
\* the bodies {"enabled": false}, {"basedir": "''"} and
\* {"basedir_altarch": "'/a'"} (convert_interface puts a string into the
\* statement as it is)
PatchedMirror(row) ==
  {[row EXCEPT !.enabled = 0], [row EXCEPT !.basedir = <<>>],
   [row EXCEPT !.basedir_altarch = <<"/", "a">>]}

\* PATCH /admin/mirrors/{name} with a body of one key
http_handler_mirror_patch_column ==
  /\ \E m \in DOMAIN mirrors :
       \E row \in PatchedMirror(mirrors[m]) \ {mirrors[m]} :
         mirrors' = [mirrors EXCEPT ![m] = row]
  /\ resp' = [NoResp EXCEPT !.kind = "mirror_patch", !.status = 204, !.at = now]
  /\ UNCHANGED <<repos, status, sqlite_sequence, listsize, caching, rescache,
                 last, prev, now, nreq, pipevars>>

\* PATCH /admin/repos/{id} with the body {"enabled": false} or
\* {"enabled": true}
http_handler_repo_patch_column ==
  /\ \E r \in DOMAIN repos :
       \E en \in {0, 1} \ {repos[r].enabled} :
         repos' = [repos EXCEPT ![r].enabled = en]
  /\ resp' = [NoResp EXCEPT !.kind = "repo_patch", !.status = 204, !.at = now]
  /\ UNCHANGED <<mirrors, status, sqlite_sequence, listsize, caching, rescache,
                 last, prev, now, nreq, pipevars>>

\* DELETE /admin/mirrors/{name}
http_handler_mirror_delete ==
  /\ \E m \in DOMAIN mirrors :
       /\ mirrors' = WithoutRows(mirrors, {m})
       /\ status' = WithoutRows(status, {p \in DOMAIN status : p[1] = m})
  /\ resp' = [NoResp EXCEPT !.kind = "mirror_delete", !.status = 204, !.at = now]
  /\ UNCHANGED <<repos, sqlite_sequence, listsize, caching, rescache, last, prev,
                 now, nreq, pipevars>>

\* DELETE /admin/repos/{id}
http_handler_repo_delete ==
  /\ \E r \in DOMAIN repos :
       /\ repos' = WithoutRows(repos, {r})
       /\ status' = WithoutRows(status, {p \in DOMAIN status : p[2] = r})
  /\ resp' = [NoResp EXCEPT !.kind = "repo_delete", !.status = 204, !.at = now]
  /\ UNCHANGED <<mirrors, sqlite_sequence, listsize, caching, rescache, last,
                 prev, now, nreq, pipevars>>

\* the tables as lib.InitDatabase creates them
InitAdmin ==
  /\ mirrors = <<>>
  /\ repos = <<>>
  /\ status = <<>>
  /\ sqlite_sequence = [mirrors |-> 0, repos |-> 0]
  /\ listsize = DefaultListSize
  /\ caching = FALSE
  /\ rescache = <<>>
  /\ now = 0
  /\ resp = NoResp
  /\ last = NoPrev
  /\ prev = NoPrev
  /\ nreq = 0
  /\ PipeIdle
  /\ hosts = [i \in MirrorIds |-> Answer("", 200, Itoa(HostTimestamp(i)))]

NextAdmin ==
  \/ http_handler_mirror_post
  \/ http_handler_repo_post
  \/ http_handler_mirror_patch_column
  \/ http_handler_repo_patch_column
  \/ http_handler_mirror_delete
  \/ http_handler_repo_delete

SpecAdmin == InitAdmin /\ [][NextAdmin]_vars

(***************************************************************************)
(* Properties of the administrator's requests, checked under SpecAdmin.    *)
(***************************************************************************)
\* C15: after any sequence of admin operations a status row exists for a
\* (mirror, repo) pair if and only if the mirror has the base directory
\* matching the repo's altarch flag.
C15_RowIffCompatible ==
  \A m \in DOMAIN mirrors, r \in DOMAIN repos :
    <<m, r>> \in DOMAIN status <=> Compatible(mirrors[m], repos[r])

(***************************************************************************)
(* Properties of the selection handler on a failing store, checked under   *)
(* SpecFailing.                                                            *)
(***************************************************************************)
\* C16: the selection handler never answers 500: for every outcome of its
\* store queries and of the cache the status is one of 200, 400, 404.
C16_DegradedAnswer ==
  IsSelection => resp.status \in {200, 400, 404}

(***************************************************************************)
(* Properties of the size of the list, checked under Spec.                 *)
(***************************************************************************)
\* C17: every 200 response of the selection handler holds at most listsize
\* mirror URLs, one line per mirror, narrowed or not, from the cache or
\* computed.
C17_AtMostListsize ==
  (IsSelection /\ resp.status = 200) =>
    /\ Len(Lines(resp.body)) <= listsize
    /\ \A i, j \in 1..Len(Lines(resp.body)) :
         i # j => LineMirror(Lines(resp.body)[i]) # LineMirror(Lines(resp.body)[j])

\* a narrowed list of listsize URLs was stored and then served from the cache
C17_Witness ==
  /\ IsSelection /\ resp.status = 200
  /\ resp.xcachehit = "true"
  /\ prev.some /\ prev.key = resp.key /\ prev.xcachehit = "false"
  /\ listsize < MaxMirrors
  /\ Len(Lines(resp.body)) = listsize

(***************************************************************************)
(* Properties of the committer's batches.                                  *)
(***************************************************************************)
\* C18: once triggered, the committer drains the results that are in the
\* queue and then commits: every transaction it opens is eventually
\* committed, and the committer returns to its threshold check.
C18_EveryTransactionCommitted == (committer = "draining") ~> (committer = "idle")

\* C19: the committer writes only in batches that start when the result
\* queue holds at least half its capacity, throughout the run: every status
\* write is of a result that was waiting when such a batch started.
C19_WritesOnlyInBatches == lastwrite.some => lastwrite.inbatch

\* C20: the updates of one batch become visible together: no state shows
\* the write of one result of a batch in the status table while another
\* result of that batch is still to be written.
C20_BatchAtomic ==
  (committer = "draining" /\ batch > 0) =>
    ~(lastwrite.some /\ lastwrite.inbatch /\ lastwrite.found
      /\ status[PairOf(lastwrite.cr)] = lastwrite.after)

(***************************************************************************)
(* Properties of the probe's classification, checked under SpecForever     *)
(* (its fleet has a host whose timestamp tag holds more digits than an     *)
(* int64 takes).                                                           *)
(***************************************************************************)
\* the outcome the classification of C21 gives for an answer of a host
ClassifiedAs(ans) ==
  IF ans.err = "no such host" THEN <<0, -1>>
  ELSE IF ans.err = "deadline exceeded" THEN <<0, -2>>
  ELSE IF ans.err # "" THEN <<0, -3>>
  ELSE IF ans.StatusCode # 200 THEN <<0, ans.StatusCode>>
  ELSE IF ans.digits = <<>> \/ ParseInt(ans.digits).converr THEN <<0, -4>>
  ELSE <<ParseInt(ans.digits).value, 200>>

\* C21: the repository-metadata probe classifies its outcome as -1, -2, -3
\* for the transport errors, (0, status code) for a non-200 response, -4 for
\* a 200 response whose timestamp tag is absent or unparsable, and otherwise
\* (parsed timestamp, 200): outcome 200 comes only with the parsed timestamp.
C21_Classification ==
  \A i \in 1..Len(resultchan) :
    <<resultchan[i].Timestamp, resultchan[i].Result>>
      = ClassifiedAs(hosts[resultchan[i].MirrorID])

(***************************************************************************)
(* Properties of the narrowed list, checked under Spec.                    *)
(***************************************************************************)
\* a selection that narrowed its candidates and rendered the result
NarrowedSelection ==
  IsSelection /\ resp.status = 200 /\ resp.narrowed /\ resp.xcachehit # "true"

\* the mirrors of the URLs of the response
Served == {LineMirror(Lines(resp.body)[i]) : i \in 1..Len(Lines(resp.body))}

\* the candidates that are enabled, support the client's IP version and
\* match at least the continent tier
Matching == {m \in Range(resp.allmirrors) : TierOf(m, resp.ip) <= 3}

\* C22: when narrowing is applied with list size N, the response contains
\* exactly min(N, M) distinct mirrors, M the number of candidates that match
\* a tier; every returned mirror matches a tier and none is added as backfill.
C22_ExactlyMinOfSizeAndMatches ==
  NarrowedSelection =>
    /\ Served \subseteq Matching
    /\ Cardinality(Served) = IF listsize < Cardinality(Matching)
                             THEN listsize ELSE Cardinality(Matching)

(***************************************************************************)
(* Rendering for the repositories an administrator can post: the frontend  *)
(* on a store with one repository BaseOS/x86_64 whose major_release and    *)
(* path are any of 7, 8, 9.                                                *)
(***************************************************************************)
RenderRepos ==
  {[major_release |-> rel, path |-> Itoa(p), name |-> BaseOS, arch |-> x86_64,
    is_altarch |-> alt, enabled |-> 1] :
     rel \in {7, 8, 9}, p \in {7, 8, 9}, alt \in BOOLEAN}

InitRender ==
  /\ mirrors = [i \in MirrorIds |-> MirrorRow(i, 1)]
  /\ \E row \in RenderRepos : repos = (1 :> row)
  /\ sqlite_sequence = [mirrors |-> MaxMirrors, repos |-> 1]
  /\ status = [p \in {x \in MirrorIds \X {1} :
                        Compatible(mirrors[x[1]], repos[1])} |->
                 [timestamp |-> HostTimestamp(p[1]), checked |-> 0, result |-> 200]]
  /\ listsize \in ListSizes
  /\ caching \in BOOLEAN
  /\ rescache = <<>>
  /\ now = 0
  /\ resp = NoResp
  /\ last = NoPrev
  /\ prev = NoPrev
  /\ nreq = 0
  /\ PipeIdle
  /\ hosts = [i \in MirrorIds |-> Answer("", 200, Itoa(HostTimestamp(i)))]

NextRender ==
  \/ http_handler_root
  \/ Tick

SpecRender == InitRender /\ [][NextRender]_vars

(***************************************************************************)
(* Properties of the rendering, checked under SpecRender.                  *)
(***************************************************************************)
\* a selection that computed its body from the store
ComputedSelection == IsSelection /\ resp.status = 200 /\ resp.xcachehit # "true"

\* C23: rendering emits exactly one URL per surviving mirror, with path, repo
\* and arch; for a repo of major_release 8 every URL ends in /os/, for any
\* other major_release none does, and a non-empty list of mirrors gives a
\* non-empty body.
C23_OneUrlPerMirror ==
  ComputedSelection =>
    LET lines == Lines(resp.body)
        repo == repos[resp.repoid]
        tail == repo.path \o <<"/">> \o repo.name \o <<"/">> \o repo.arch \o <<"/">>
    IN  /\ Len(lines) = Cardinality(Range(resp.ids))
        /\ {LineMirror(lines[i]) : i \in 1..Len(lines)} = Range(resp.ids)
        /\ \A i \in 1..Len(lines) :
             IF repo.major_release = 8
             THEN EndsWith(lines[i], tail \o <<"o", "s", "/">>)
             ELSE EndsWith(lines[i], tail)
        /\ resp.ids # <<>> => resp.body # <<>>

\* C24: when the candidates fit the list size they are listed unmodified in
\* freshness order: the URLs are in order of status timestamp descending.
C24_FreshnessOrder ==
  (ComputedSelection /\ ~resp.narrowed) =>
    LET lines == Lines(resp.body)
        ts(i) == status[<<LineMirror(lines[i]), resp.repoid>>].timestamp
    IN  /\ {LineMirror(lines[i]) : i \in 1..Len(lines)} = Range(resp.allmirrors)
        /\ \A i, j \in 1..Len(lines) : i < j => ts(i) >= ts(j)

\* C25: when narrowing is applied, every mirror of the narrowed result is
\* enabled and has the support flag of the client's IP version set; a mirror
\* whose IPv6 flag is 0 is never matched for an IPv6 client.
C25_NarrowedSupportsClientFamily ==
  NarrowedSelection =>
    \A m \in Range(resp.ids) \cup Served :
      /\ mirrors[m].enabled > 0
      /\ ipcolumn(mirrors[m], IPversion(resp.ip)) > 0

\* an IPv6 client was served a narrowed list, and a candidate without IPv6
\* on the client's continent was left out
C25_Witness ==
  /\ NarrowedSelection
  /\ IPversion(resp.ip) = <<"6">>
  /\ resp.ids # <<>>
  /\ \E m \in Range(resp.allmirrors) :
       /\ mirrors[m].ipv6 = 0
       /\ mirrors[m].enabled > 0
       /\ mirrors[m].continent = get_ip_location(resp.ip).Continent
       /\ m \notin Range(resp.ids)

(***************************************************************************)
(* The frontend on a store where some mirrors were registered from hosts   *)
(* whose address the geo database does not cover: http_handler_mirror_post *)
(* stores the empty continent, country and region get_ip_location gives    *)
(* for them, next to the address families found in DNS.                    *)
(***************************************************************************)
UnlocatedRow(i) ==
  [MirrorRow(i, 1) EXCEPT !.continent = <<>>, !.country = <<>>, !.region = <<>>]

InitUnlocated ==
  /\ \E U \in SUBSET MirrorIds :
       mirrors = [i \in MirrorIds |-> IF i \in U THEN UnlocatedRow(i) ELSE MirrorRow(i, 1)]
  /\ repos = RepoRows
  /\ sqlite_sequence = SequenceAfterPosts(MirrorIds)
  /\ status = StatusChecked
  /\ listsize \in ListSizes
  /\ caching \in BOOLEAN
  /\ rescache = <<>>
  /\ now = 0
  /\ resp = NoResp
  /\ last = NoPrev
  /\ prev = NoPrev
  /\ nreq = 0
  /\ PipeIdle
  /\ hosts = [i \in MirrorIds |-> Answer("", 200, Itoa(HostTimestamp(i)))]

NextUnlocated ==
  \/ http_handler_root
  \/ Tick

SpecUnlocated == InitUnlocated /\ [][NextUnlocated]_vars

\* the client's location has no continent, country or region
NoGeoFields(ip) ==
  LET loc == get_ip_location(ip)
  IN  loc.Continent = <<>> /\ loc.Country = <<>> /\ loc.Region = <<>>

\* C26: a client whose location is unknown matches no geo tier for any
\* mirror, also not for mirrors whose stored location fields are empty; when
\* narrowing is applied for such a client the narrowed list is empty.
C26_UnknownMatchesNoTier ==
  (NarrowedSelection /\ NoGeoFields(resp.ip)) =>
    /\ resp.ids = <<>>
    /\ Served = {}

(***************************************************************************)
(* The scheduler and the dispatcher on stores with rows around the rescan  *)
(* threshold: each pair was checked less than a rescan interval ago, or a  *)
(* little more (within the jitter), or long ago; either repo may have been *)
(* disabled by the administrator.                                          *)
(***************************************************************************)
\* how much longer than a rescan interval ago a pair was checked
Ages == {-45, 20, rescan}

StatusAged(age) ==
  [p \in DOMAIN StatusOfMore |->
     [timestamp |-> HostTimestamp(p[1]),
      checked |-> UpdaterStart - rescan - age[p] - (2 * p[1] + p[2]),
      result |-> 200]]

InitSchedule ==
  /\ mirrors = [i \in MoreMirrorIds |-> MirrorRow(i, 1)]
  /\ \E off \in SUBSET DOMAIN RepoRows :
       /\ off # DOMAIN RepoRows
       /\ repos = [r \in DOMAIN RepoRows |->
                     IF r \in off THEN [RepoRows[r] EXCEPT !.enabled = 0]
                     ELSE RepoRows[r]]
  /\ sqlite_sequence = SequenceAfterPosts(DOMAIN mirrors)
  /\ \E age \in [DOMAIN StatusOfMore -> Ages] : status = StatusAged(age)
  /\ listsize = DefaultListSize
  /\ caching = FALSE
  /\ rescache = <<>>
  /\ now = UpdaterStart
  /\ resp = NoResp
  /\ last = NoPrev
  /\ prev = NoPrev
  /\ nreq = 0
  /\ PipeIdle
  /\ hosts = [i \in MoreMirrorIds |-> Answer("", 200, Itoa(HostTimestamp(i)))]

NextSchedule ==
  \/ Scheduler
  \/ Dispatcher
  \/ Sleep

SpecSchedule == InitSchedule /\ [][NextSchedule]_vars

\* the pairs of the tasks of a queue, in queue order
QueuedPairs(q) == [i \in 1..Len(q) |-> PairOf(q[i])]

\* C27: a scheduling round enqueues at most cap(taskchan) tasks, only for
\* rows of enabled repos whose checked is older than now - (rescan + jitter)
\* for one jitter in 0..59, in non-decreasing order of checked; a pair checked
\* less than rescan seconds ago is never scheduled.
C27_RoundWithinLimitAndStale ==
  [][ (taskchan = <<>> /\ taskchan' # <<>>) =>
        LET ps == QueuedPairs(taskchan')
        IN  /\ Len(ps) <= QueueCap
            /\ \A i \in 1..Len(ps) :
                 /\ ps[i] \in DOMAIN status
                 /\ repos[ps[i][2]].enabled > 0
                 /\ now - status[ps[i]].checked >= rescan
            /\ \E jitter \in 0..(JitterRange - 1) :
                 \A i \in 1..Len(ps) :
                   status[ps[i]].checked < now - (rescan + jitter)
            /\ \A i, j \in 1..Len(ps) :
                 i < j => status[ps[i]].checked <= status[ps[j]].checked ]_vars

\* a round has just filled the queue, and has left out a long-stale row of a
\* disabled repo and a row of an enabled repo checked less than a rescan
\* interval ago
C27_Witness ==
  /\ taskchan # <<>> /\ inflight = <<>> /\ nsched = 1
  /\ \E p \in DOMAIN status \ awaiting :
       repos[p[2]].enabled = 0 /\ status[p].checked < now - (rescan + JitterRange)
  /\ \E p \in DOMAIN status \ awaiting :
       repos[p[2]].enabled > 0 /\ now - status[p].checked < rescan
  /\ \E p \in awaiting :
       status[p].checked >= now - (rescan + JitterRange)

(***************************************************************************)
(* Properties of the committer's writes, checked under SpecUpdater.        *)
(***************************************************************************)
\* C28: the committer applies the results in the order it takes them from
\* the result queue: every change of the status table is the update for the
\* head of the queue, which sets the pair's checked to the time of the write
\* and leaves every other row alone, so that a row's checked is the time of
\* the latest result committed for its pair and never decreases.
C28_FifoAndCheckedIsCommitTime ==
  [][ /\ status' # status =>
           /\ resultchan # <<>>
           /\ resultchan' = Tail(resultchan)
           /\ DOMAIN status' = DOMAIN status
           /\ \A p \in DOMAIN status :
                IF p = PairOf(Head(resultchan))
                THEN status'[p] = [timestamp |-> Head(resultchan).Timestamp,
                                   checked |-> now,
                                   result |-> Head(resultchan).Result]
                ELSE status'[p] = status[p]
      /\ Len(resultchan') < Len(resultchan) =>
           /\ resultchan' = Tail(resultchan)
           /\ PairOf(Head(resultchan)) \in DOMAIN status =>
                status'[PairOf(Head(resultchan))].checked = now
      /\ \A p \in DOMAIN status \cap DOMAIN status' :
           status'[p].checked >= status[p].checked ]_vars

\* the committer has written the result for a pair checked before, later
\* than the start of the updater, and more results are queued behind it
C28_Witness ==
  /\ lastwrite.some /\ lastwrite.found
  /\ lastwrite.before.checked > 0
  /\ lastwrite.before.checked < lastwrite.at
  /\ lastwrite.at > UpdaterStart
  /\ status[PairOf(lastwrite.cr)].checked = lastwrite.at
  /\ resultchan # <<>>

(***************************************************************************)
(* The administrator's patch and delete requests with statements that      *)
(* fail: an UPDATE of a column the table does not have, and a DELETE or a  *)
(* COMMIT the database refuses.  The handlers log the error of tx.Exec and *)
(* go on to tx.Commit.                                                     *)
(***************************************************************************)
\* the keys of the bodies of a PATCH: {"enabled": false}, {"comment": 1} and
\* both (no table has a column comment)
PatchKeys == {{"enabled"}, {"comment"}, {"enabled", "comment"}}

\* the columns a PATCH of the model can name that the tables have
Columns == {"enabled"}

\* what the database can refuse while a handler runs
TxFaults == {"none", "first Exec", "second Exec", "Commit"}

\* what a handler did: it logged a failed tx.Exec, it called tx.Commit, and
\* the tables differ from those before the request
TxCalls(failed, committed, changed) ==
  (IF failed THEN {"Exec failed"} ELSE {})
    \cup (IF committed THEN {"Commit"} ELSE {})
    \cup (IF changed THEN {"store changed"} ELSE {})

\* PATCH /admin/mirrors/{name}: one UPDATE per key of the body, each error
\* logged, then Commit
http_handler_mirror_patch_keys ==
  /\ \E m \in DOMAIN mirrors, keys \in PatchKeys, fault \in {"none", "Commit"} :
       LET applied == keys \cap Columns
           after == IF applied = {} \/ fault = "Commit" THEN mirrors
                    ELSE [mirrors EXCEPT ![m].enabled = 0]
       IN  /\ mirrors' = after
           /\ resp' = [NoResp EXCEPT
                         !.kind = "mirror_patch",
                         !.status = IF fault = "Commit" THEN 500 ELSE 204,
                         !.at = now,
                         !.calls = TxCalls(keys # applied, TRUE, after # mirrors)]
  /\ UNCHANGED <<repos, status, sqlite_sequence, listsize, caching, rescache,
                 last, prev, now, nreq, pipevars>>

\* PATCH /admin/repos/{id}: the same for a row of repos
http_handler_repo_patch_keys ==
  /\ \E r \in DOMAIN repos, keys \in PatchKeys, fault \in {"none", "Commit"} :
       LET applied == keys \cap Columns
           after == IF applied = {} \/ fault = "Commit" THEN repos
                    ELSE [repos EXCEPT ![r].enabled = 0]
       IN  /\ repos' = after
           /\ resp' = [NoResp EXCEPT
                         !.kind = "repo_patch",
                         !.status = IF fault = "Commit" THEN 500 ELSE 204,
                         !.at = now,
                         !.calls = TxCalls(keys # applied, TRUE, after # repos)]
  /\ UNCHANGED <<mirrors, status, sqlite_sequence, listsize, caching, rescache,
                 last, prev, now, nreq, pipevars>>

\* DELETE /admin/mirrors/{name}: DELETE FROM mirrors, DELETE FROM status,
\* each error logged, then Commit
http_handler_mirror_delete_with(fault) ==
  /\ \E m \in DOMAIN mirrors :
       LET rows == {p \in DOMAIN status : p[1] = m}
           mafter == IF fault \in {"first Exec", "Commit"} THEN mirrors
                     ELSE WithoutRows(mirrors, {m})
           safter == IF fault \in {"second Exec", "Commit"} THEN status
                     ELSE WithoutRows(status, rows)
       IN  /\ mirrors' = mafter
           /\ status' = safter
           /\ resp' = [NoResp EXCEPT
                         !.kind = "mirror_delete",
                         !.status = IF fault = "Commit" THEN 500 ELSE 204,
                         !.at = now,
                         !.calls = TxCalls(fault \in {"first Exec", "second Exec"},
                                           TRUE,
                                           mafter # mirrors \/ safter # status)]
  /\ UNCHANGED <<repos, sqlite_sequence, listsize, caching, rescache, last, prev,
                 now, nreq, pipevars>>

http_handler_mirror_delete_failing == \E fault \in TxFaults : http_handler_mirror_delete_with(fault)

NextAdminFailing ==
  \/ http_handler_mirror_patch_keys
  \/ http_handler_repo_patch_keys
  \/ http_handler_mirror_delete_failing
  \/ Tick

SpecAdminFailing == Init /\ [][NextAdminFailing]_vars

\* an answer to one of the administrator's patch and delete requests
IsMutation == resp.kind \in {"mirror_patch", "repo_patch", "mirror_delete"}

\* C29: an admin mutation whose transaction has a failing statement is
\* rolled back and answered with a server error: the store is as before the
\* request, and 201 or 204 is returned only when every statement succeeded.
C29_FailedStatementRollsBack ==
  IsMutation =>
    /\ "Exec failed" \in resp.calls =>
         resp.status = 500 /\ "store changed" \notin resp.calls
    /\ resp.status \in {201, 204} => "Exec failed" \notin resp.calls

(***************************************************************************)
(* Concurrent requests of the administrator.  fasthttp runs every request  *)
(* in its own goroutine.  The POST handlers insert the new row, read the   *)
(* other table with repolist() or mirrorlist(), and insert the status rows *)
(* in a transaction opened afterwards; a DELETE handler or the other POST   *)
(* handler can run between the read and the inserts.  The committer of the *)
(* updater writes its results at any time.                                 *)
(***************************************************************************)
\* the other variables of the model, which the POST handlers leave alone
PostUnchanged ==
  UNCHANGED <<frontvars, now, taskchan, resultchan, inflight, committer,
              awaiting, reselected, lastwrite, nsched, hosts, batch, keyed,
              order>>

\* POST /admin/mirrors up to the INSERT of the mirror and mirror_name_to_id
http_handler_mirror_post_begin ==
  /\ \A p \in pending : p.kind # "mirror_post"
  /\ \E i \in MirrorIds :
       LET newmirror == MirrorRow(i, 1)
           id == sqlite_sequence.mirrors + 1
       IN  /\ ~mirror_name_to_id(newmirror.name).exists
           /\ id <= MaxMirrorPosts
           /\ mirrors' = WithRow(mirrors, id, newmirror)
           /\ sqlite_sequence' = [sqlite_sequence EXCEPT !.mirrors = id]
           /\ pending' = pending \cup
                {[kind |-> "mirror_post", id |-> id, row |-> newmirror,
                  listed |-> FALSE, pairs |-> {}]}
  /\ UNCHANGED <<repos, status>>
  /\ PostUnchanged

\* POST /admin/mirrors in the variant whose list of repos is from before the
\* open POST /admin/repos inserted its row
http_handler_mirror_post_list_stale ==
  /\ \E p \in pending :
       /\ p.kind = "mirror_post" /\ ~p.listed
       /\ LET seen == DOMAIN repos \ {o.id : o \in pending \ {p}}
          IN  pending' = (pending \ {p}) \cup
                {[p EXCEPT !.listed = TRUE,
                           !.pairs = {<<p.id, r>> : r \in
                                        {x \in seen :
                                           CompatibleEnabled(p.row, repos[x])}}]}
  /\ UNCHANGED <<mirrors, repos, status, sqlite_sequence>>
  /\ PostUnchanged

\* POST /admin/mirrors: repolist() and the choice of the repos of the new
\* mirror
http_handler_mirror_post_list ==
  /\ \E p \in pending :
       /\ p.kind = "mirror_post" /\ ~p.listed
       /\ pending' = (pending \ {p}) \cup
            {[p EXCEPT !.listed = TRUE,
                       !.pairs = {<<p.id, r>> : r \in
                                    {x \in DOMAIN repos :
                                       CompatibleEnabled(p.row, repos[x])}}]}
  /\ UNCHANGED <<mirrors, repos, status, sqlite_sequence>>
  /\ PostUnchanged

\* POST /admin/repos up to the INSERT of the repo
http_handler_repo_post_begin ==
  /\ \A p \in pending : p.kind # "repo_post"
  /\ \E newrepo \in RepoBodies :
       LET id == sqlite_sequence.repos + 1
       IN  /\ id <= MaxRepos
           /\ repos' = WithRow(repos, id, newrepo)
           /\ sqlite_sequence' = [sqlite_sequence EXCEPT !.repos = id]
           /\ pending' = pending \cup
                {[kind |-> "repo_post", id |-> id, row |-> newrepo,
                  listed |-> FALSE, pairs |-> {}]}
  /\ UNCHANGED <<mirrors, status>>
  /\ PostUnchanged

\* POST /admin/repos: repolist() for the id of the new repo (that of the
\* last row equal to the body; 0 when there is none), then mirrorlist() and
\* the choice of the mirrors of the new repo
http_handler_repo_post_list ==
  /\ \E p \in pending :
       /\ p.kind = "repo_post" /\ ~p.listed
       /\ LET matches == {r \in DOMAIN repos : repos[r] = p.row}
              newid == IF matches = {} THEN 0
                       ELSE CHOOSE r \in matches : \A x \in matches : x <= r
          IN  pending' = (pending \ {p}) \cup
                {[p EXCEPT !.listed = TRUE,
                           !.pairs = {<<m, newid>> : m \in
                                        {x \in DOMAIN mirrors :
                                           Compatible(mirrors[x], p.row)}}]}
  /\ UNCHANGED <<mirrors, repos, status, sqlite_sequence>>
  /\ PostUnchanged

\* the rest of either POST handler: the INSERTs into status, Commit, 201
http_handler_post_commit ==
  /\ \E p \in pending :
       /\ p.listed
       /\ status' = InsertStatus(p.pairs)
       /\ resp' = [NoResp EXCEPT !.kind = p.kind, !.status = 201, !.at = now]
       /\ pending' = pending \ {p}
  /\ UNCHANGED <<mirrors, repos, sqlite_sequence, listsize, caching, rescache,
                 last, prev, nreq, now, taskchan, resultchan, inflight,
                 committer, awaiting, reselected, lastwrite, nsched, hosts, batch,
                 keyed, order>>

\* one mirror with one repo, and the committer in its loop with the result of
\* a probe of that pair
InitConcurrent ==
  /\ mirrors = (1 :> MirrorRow(1, 1))
  /\ repos = (1 :> RepoRows[1])
  /\ status = (<<1, 1>> :> StatusInsert)
  /\ sqlite_sequence = [mirrors |-> 1, repos |-> 1]
  /\ listsize = DefaultListSize
  /\ caching = FALSE
  /\ rescache = <<>>
  /\ now = 0
  /\ resp = NoResp
  /\ last = NoPrev
  /\ prev = NoPrev
  /\ nreq = 0
  /\ taskchan = <<>> /\ inflight = <<>>
  /\ resultchan = <<[MirrorID |-> 1, RepoID |-> 1,
                     Timestamp |-> HostTimestamp(1), Result |-> 200]>>
  /\ committer = "draining"
  /\ awaiting = {} /\ reselected = {} /\ lastwrite = NoWrite
  /\ nsched = 0
  /\ batch = 1
  /\ pending = NoPending
  /\ keyed = NoKeyed
  /\ order = NoOrder
  /\ hosts = [i \in MirrorIds |-> Answer("", 200, Itoa(HostTimestamp(i)))]

NextConcurrent ==
  \/ http_handler_mirror_post_begin
  \/ http_handler_mirror_post_list
  \/ http_handler_repo_post_begin
  \/ http_handler_repo_post_list
  \/ http_handler_post_commit
  \/ http_handler_mirror_delete
  \/ http_handler_repo_delete
  \/ CommitterWrite

SpecConcurrent == InitConcurrent /\ [][NextConcurrent]_vars

\* C30: in every state reachable by interleavings of concurrent admin
\* requests and committer updates, every status row references a mirror and
\* a repo that exist: none is left or re-created for a deleted parent.
C30_NoOrphanStatus ==
  \A p \in DOMAIN status : p[1] \in DOMAIN mirrors /\ p[2] \in DOMAIN repos

(***************************************************************************)
(* Properties of the two queues of the updater.                            *)
(***************************************************************************)
\* C31: the scheduler's enqueue never blocks and the task queue never holds
\* more than cap(taskchan) tasks: tasks are added only to the empty queue,
\* at most cap(taskchan) of them in a round; the result queue never holds
\* more than cap(resultchan) results.
C31_QueuesWithinCapacity ==
  /\ [](Len(taskchan) <= QueueCap /\ Len(resultchan) <= QueueCap)
  /\ [][ Len(taskchan') > Len(taskchan) =>
           taskchan = <<>> /\ Len(taskchan') <= QueueCap ]_vars

\* a round has filled the task queue to its capacity and has left a stale
\* row for a later round
C31_Witness ==
  /\ Len(taskchan) = QueueCap
  /\ \E p \in DOMAIN status \ awaiting : StaleEnabled(p)

(***************************************************************************)
(* Properties of the mirrors a response names, checked under Spec.         *)
(***************************************************************************)
\* every URL of the body of the response is of a mirror that is in the store
\* and enabled
ServedAreEnabled ==
  \A i \in 1..Len(Lines(resp.body)) :
    LET m == LineMirror(Lines(resp.body)[i])
    IN  m \in DOMAIN mirrors /\ mirrors[m].enabled > 0

\* C32 as claimed: every mirror URL of a 200 response belongs to a mirror
\* that is enabled and present in the store when the request is handled.
C32_ServedAreEnabled ==
  (IsSelection /\ resp.status = 200) => ServedAreEnabled

\* C32 amended: that holds for every 200 response computed from the store; a
\* response served from the cache is the body stored under its key less than
\* CacheTTL seconds before, whatever the administrator did since.
C32_ComputedAreEnabled ==
  /\ ComputedSelection => ServedAreEnabled
  /\ (IsSelection /\ resp.status = 200 /\ resp.xcachehit = "true"
        /\ resp.at = now) =>
       /\ resp.key \in DOMAIN rescache
       /\ rescache[resp.key].value = resp.body
       /\ resp.at < rescache[resp.key].expireAt
       /\ rescache[resp.key].expireAt <= resp.at + CacheTTL

\* a response computed after the administrator disabled a mirror that serves
\* the repo: it names the other mirrors only
C32_Witness ==
  /\ ComputedSelection
  /\ resp.body # <<>>
  /\ \E m \in DOMAIN mirrors :
       /\ mirrors[m].enabled = 0
       /\ <<m, resp.repoid>> \in DOMAIN status
       /\ m \notin Served

\* every mirror the response names supports the client's IP version
ServedSupportClient ==
  \A m \in Served : m \in DOMAIN mirrors /\ ipcolumn(mirrors[m], IPversion(resp.ip)) > 0

\* C33 as claimed: every mirror URL of a computed 200 response is of a mirror
\* that supports the client's IP version, narrowed or not.
C33_ServedSupportClient == ComputedSelection => ServedSupportClient

\* C33 amended: that holds when narrowing is applied; when the candidates fit
\* the list size, the response names enabled mirrors with a status row of
\* the repo, whatever address families they have.
C33_SupportOnlyWhenNarrowed ==
  ComputedSelection =>
    IF resp.narrowed THEN ServedSupportClient
    ELSE Served \subseteq Eligible(resp.repoid)

\* an IPv6 client got the unmodified candidates, one of them a mirror without
\* IPv6
C33_Witness ==
  /\ ComputedSelection /\ ~resp.narrowed
  /\ IPversion(resp.ip) = <<"6">>
  /\ \E m \in Served : mirrors[m].ipv6 = 0

(***************************************************************************)
(* The cache key of the selection handler for requests that differ in the  *)
(* repo, the IP version or the location.  The repo id is a value of the    *)
(* autoincrement key, the IP version is "4" or "6", and the location is    *)
(* what get_ip_location makes of a record of the geo database: nothing, a  *)
(* continent, a continent and a country, or these and a subdivision, with  *)
(* two-letter continent and country codes and ISO 3166-2 subdivision codes *)
(* of one to three letters or digits.                                      *)
(***************************************************************************)
KeyRepoIds == {1, 4, 6, 14, 16, 46}

KeyContinents == {<<"E", "U">>, <<"N", "A">>}
KeyCountries == {<<"D", "E">>, <<"N", "A">>}
KeyRegions == {<<"B", "E">>, <<"4">>, <<"4", "6">>}

KeyLocations ==
  {UnknownLocation, Location(TRUE, <<>>, <<>>, <<>>)}
    \cup {Location(TRUE, c, <<>>, <<>>) : c \in KeyContinents}
    \cup {Location(TRUE, c, k, <<>>) : c \in KeyContinents, k \in KeyCountries}
    \cup {Location(TRUE, c, k, r) :
            c \in KeyContinents, k \in KeyCountries, r \in KeyRegions}

KeyInputs ==
  [repoid : KeyRepoIds, ipversion : {<<"4">>, <<"6">>}, loc : KeyLocations]

\* the components of the key the claim names
KeyTuple(x) == <<x.repoid, x.ipversion, x.loc.Continent, x.loc.Country, x.loc.Region>>

InitKey ==
  /\ mirrors = [i \in MirrorIds |-> MirrorRow(i, 1)]
  /\ repos = RepoRows
  /\ sqlite_sequence = SequenceAfterPosts(DOMAIN mirrors)
  /\ status = StatusChecked
  /\ listsize = DefaultListSize
  /\ caching = TRUE
  /\ rescache = <<>>
  /\ now = 0
  /\ resp = NoResp
  /\ last = NoPrev
  /\ prev = NoPrev
  /\ nreq = 0
  /\ taskchan = <<>> /\ resultchan = <<>> /\ inflight = <<>>
  /\ committer = "idle"
  /\ awaiting = {} /\ reselected = {} /\ lastwrite = NoWrite
  /\ nsched = 0
  /\ batch = 0
  /\ pending = NoPending
  /\ \E a, b \in KeyInputs : keyed = [some |-> FALSE, a |-> a, b |-> b]
  /\ order = NoOrder
  /\ hosts = [i \in MirrorIds |-> Answer("", 200, Itoa(HostTimestamp(i)))]

\* the handler builds the key of each of the two requests
BuildKeys ==
  /\ ~keyed.some
  /\ keyed' = [some |-> TRUE, a |-> keyed.a, b |-> keyed.b,
               ka |-> CacheKey(keyed.a.repoid, keyed.a.ipversion, keyed.a.loc),
               kb |-> CacheKey(keyed.b.repoid, keyed.b.ipversion, keyed.b.loc)]
  /\ UNCHANGED <<storevars, frontvars, now, taskchan, resultchan, inflight,
                 committer, awaiting, reselected, lastwrite, nsched, hosts,
                 batch, pending, order>>

NextKey == BuildKeys

SpecKey == InitKey /\ [][NextKey]_vars

\* C34: the cache key is injective on its components: two requests that
\* differ in repo id, IP version, continent, country or region never get the
\* same key.
C34_KeyInjective ==
  keyed.some => (keyed.ka = keyed.kb => KeyTuple(keyed.a) = KeyTuple(keyed.b))

\* two requests that differ in the repo, the IP version and the location got
\* different keys of the same length
C34_Witness ==
  /\ keyed.some
  /\ keyed.a.repoid # keyed.b.repoid
  /\ keyed.a.ipversion # keyed.b.ipversion
  /\ keyed.a.loc # keyed.b.loc
  /\ keyed.ka # keyed.kb
  /\ Len(keyed.ka) = Len(keyed.kb)

\* C35: no mirror URL appears more than once in a response body, although a
\* mirror that matches several tiers is several times in the id list the
\* narrowing hands to the rendering.
C35_NoUrlTwice ==
  (IsSelection /\ resp.status = 200) =>
    \A i, j \in 1..Len(Lines(resp.body)) :
      i # j => Lines(resp.body)[i] # Lines(resp.body)[j]

\* the narrowed id list names a mirror more than once, and the body has its
\* URL
C35_Witness ==
  /\ NarrowedSelection
  /\ \E i, j \in 1..Len(resp.ids) : i # j /\ resp.ids[i] = resp.ids[j]
  /\ resp.body # <<>>
  /\ Served = Range(resp.ids)

(***************************************************************************)
(* Concurrent creation of mirrors and repos on the empty store.            *)
(***************************************************************************)
NextCreate ==
  \/ http_handler_mirror_post_begin
  \/ http_handler_mirror_post_list
  \/ http_handler_repo_post_begin
  \/ http_handler_repo_post_list
  \/ http_handler_post_commit

SpecCreate == InitAdmin /\ [][NextCreate]_vars

\* C36: when a mirror creation and a repo creation run concurrently and the
\* pair is compatible (matching base directory, repo enabled), a status row
\* for the pair exists once both requests have completed: until then, the
\* request of the mirror or that of the repo has still to read the other
\* table, or one of them has read the other's row and is about to insert
\* the row of the pair.
C36_RowAfterBothPosts ==
  \A m \in DOMAIN mirrors, r \in DOMAIN repos :
    CompatibleEnabled(mirrors[m], repos[r]) =>
      \/ <<m, r>> \in DOMAIN status
      \/ \E p \in pending : p.listed /\ <<m, r>> \in p.pairs
      \/ \E p \in pending :
           /\ ~p.listed
           /\ \/ p.kind = "mirror_post" /\ p.id = m
              \/ p.kind = "repo_post" /\ p.id = r

\* both requests are open and have read the store, the mirror's before the
\* repo was inserted: the row of the pair is not there yet, and the POST of
\* the repo is about to insert it
C36_Witness ==
  \E pm, pr \in pending :
    /\ pm.kind = "mirror_post" /\ pr.kind = "repo_post"
    /\ pm.listed /\ pr.listed
    /\ CompatibleEnabled(pm.row, pr.row)
    /\ <<pm.id, pr.id>> \in pr.pairs \ pm.pairs
    /\ <<pm.id, pr.id>> \notin DOMAIN status

(***************************************************************************)
(* The updater with its probes numbered in the order of their dispatch.    *)
(* The goroutines are those of SpecUpdater; each step also records in      *)
(* order which probe it starts, finishes or writes.                        *)
(***************************************************************************)
\* the number a pair has in a history, 0 when it has none
NumberOf(f, pair) == IF pair \in DOMAIN f THEN f[pair] ELSE 0

Larger(a, b) == IF a > b THEN a ELSE b

InitOrder ==
  /\ mirrors = [i \in MirrorIds |-> MirrorRow(i, 1)]
  /\ repos = RepoRows
  /\ sqlite_sequence = SequenceAfterPosts(DOMAIN mirrors)
  /\ status = StatusBeforeUpdater
  /\ listsize = DefaultListSize
  /\ caching = FALSE
  /\ rescache = <<>>
  /\ now = UpdaterStart
  /\ resp = NoResp
  /\ last = NoPrev
  /\ prev = NoPrev
  /\ nreq = 0
  /\ PipeIdle
  /\ hosts = [i \in MirrorIds |-> Answer("", 200, Itoa(HostTimestamp(i)))]

\* The dispatcher starts the probe number order.next
DispatcherNumbered ==
  /\ taskchan # <<>>
  /\ taskchan' = Tail(taskchan)
  /\ inflight' = Started(inflight, Head(taskchan))
  /\ order' = [order EXCEPT
                 !.next = order.next + 1,
                 !.flying = order.flying \cup
                              {[task |-> Head(taskchan), number |-> order.next]}]
  /\ UNCHANGED <<storevars, frontvars, now, resultchan, committer, awaiting,
                 reselected, lastwrite, nsched, hosts, batch, pending, keyed>>

\* One of the probes in flight finishes and sends its result
execute_test_numbered ==
  /\ \E probe \in order.flying :
       /\ probe.task.Valid
       /\ Len(resultchan) < QueueCap
       /\ resultchan' = Append(resultchan,
              CheckResult(probe.task,
                          Outcome(probe.task, hosts[probe.task.MirrorID], now)))
       /\ inflight' = Finished(inflight, probe.task)
       /\ order' = [order EXCEPT
                      !.flying = order.flying \ {probe},
                      !.queued = Append(order.queued, probe.number)]
  /\ UNCHANGED <<storevars, frontvars, now, taskchan, committer, awaiting,
                 reselected, lastwrite, nsched, hosts, batch, pending, keyed>>

\* One iteration of the committer's loop, for the result at the head
CommitterWriteNumbered ==
  /\ committer = "draining"
  /\ resultchan # <<>>
  /\ LET cr == Head(resultchan)
         pair == PairOf(cr)
         number == Head(order.queued)
     IN  /\ status' = update_mirror_status(status, cr, now)
         /\ lastwrite' = [some |-> TRUE, cr |-> cr, at |-> now,
                          inbatch |-> batch > 0,
                          found |-> pair \in DOMAIN status,
                          before |-> IF pair \in DOMAIN status
                                     THEN status[pair] ELSE StatusInsert,
                          after |-> IF pair \in DOMAIN status'
                                    THEN status'[pair] ELSE StatusInsert]
         /\ awaiting' = awaiting \ (IF pair \in DOMAIN status THEN {pair} ELSE {})
         /\ order' = [order EXCEPT
                        !.queued = Tail(order.queued),
                        !.written = WithRow(order.written, pair, number),
                        !.latest = WithRow(order.latest, pair,
                                     Larger(number, NumberOf(order.latest, pair)))]
  /\ resultchan' = Tail(resultchan)
  /\ batch' = IF batch > 0 THEN batch - 1 ELSE 0
  /\ UNCHANGED <<mirrors, repos, sqlite_sequence, frontvars, now, taskchan,
                 inflight, committer, reselected, nsched, hosts, pending, keyed>>

NextOrder ==
  \/ Scheduler
  \/ DispatcherNumbered
  \/ execute_test_numbered
  \/ CommitterBegin
  \/ CommitterWriteNumbered

SpecOrder == InitOrder /\ [][NextOrder]_vars

\* C37: for every status row, the stored result and timestamp are those of
\* the most recently dispatched probe of the pair that was written: a result
\* of an earlier-dispatched probe is never written after the result of a
\* later-dispatched probe of the same pair.
C37_WrittenInDispatchOrder ==
  \A pair \in DOMAIN order.written :
    order.written[pair] = order.latest[pair]

(***************************************************************************)
(* The checker and the frontend on one store: the scheduler builds the     *)
(* probe URLs of the repository the frontend renders.                      *)
(***************************************************************************)
InitAgree ==
  /\ mirrors = [i \in MirrorIds |-> MirrorRow(i, 1)]
  /\ \E row \in RenderRepos : repos = (1 :> row)
  /\ sqlite_sequence = [mirrors |-> MaxMirrors, repos |-> 1]
  /\ status = [p \in {x \in MirrorIds \X {1} :
                        Compatible(mirrors[x[1]], repos[1])} |->
                 [timestamp |-> HostTimestamp(p[1]), checked |-> p[1],
                  result |-> 200]]
  /\ listsize = DefaultListSize
  /\ caching = FALSE
  /\ rescache = <<>>
  /\ now = UpdaterStart
  /\ resp = NoResp
  /\ last = NoPrev
  /\ prev = NoPrev
  /\ nreq = 0
  /\ PipeIdle
  /\ hosts = [i \in MirrorIds |-> Answer("", 200, Itoa(HostTimestamp(i)))]

NextAgree ==
  \/ http_handler_root
  \/ Scheduler
  \/ Dispatcher

SpecAgree == InitAgree /\ [][NextAgree]_vars

\* the probe URL of a task has the arch followed by /os
ProbeHasOs(task) ==
  EndsWith(task.URL, repos[task.RepoID].arch \o <<"/", "o", "s">>)

\* the URL served for mirror m ends in /os/
ServedHasOs(m) ==
  \E i \in 1..Len(Lines(resp.body)) :
    /\ LineMirror(Lines(resp.body)[i]) = m
    /\ EndsWith(Lines(resp.body)[i], <<"/", "o", "s", "/">>)

\* C38: for every non-ISO repo, the checker's probe URL and the rendered URL
\* agree on the /os suffix: the probe URL of a mirror has the arch followed
\* by /os exactly when the URL served for that mirror ends in /os/, for every
\* combination of the repo's major_release and path.
C38_ProbeAndServedAgreeOnOs ==
  ComputedSelection =>
    \A i \in 1..Len(taskchan) :
      (/\ taskchan[i].RepoID = resp.repoid
       /\ ~taskchan[i].Iso
       /\ taskchan[i].MirrorID \in Served)
        => (ProbeHasOs(taskchan[i]) <=> ServedHasOs(taskchan[i].MirrorID))

====
